---- MODULE Spec2Model ----
(***************************************************************************)
(* Model of the trivia123 server actions (src/src/app/actions/*.ts) over   *)
(* the tables of src/supabase/schema.sql.  Every server action is an       *)
(* operator from a database value (and the request's arguments) to the set *)
(* of results it can produce; the actions of the specifications apply      *)
(* these operators to the state variables.                                 *)
(***************************************************************************)
EXTENDS Integers, Sequences, FiniteSets, TLC

VARIABLES
    games,        \* lobby columns of table games: code, status, lobby_locked, host_player_id
    players,      \* table players
    game,         \* football columns of the games row of the game being played
    play_calls,   \* table play_calls
    plays,        \* table plays, in insertion order
    game_events,  \* table game_events, in insertion order
    rounds,       \* table rounds
    round_answers, \* table answers
    scores,       \* trivia columns of table players: score, correct_count, incorrect_count
    trivia_game,  \* trivia columns of the games row: winner_player_id, target_score
    last,         \* the last server action that returned, and what it returned
    created,      \* the numbers of rows ever inserted into games and into players
    inflight,     \* requests that have started and not yet returned (one per client)
    script        \* position of each scripted client in its call/answer/roll/continue sequence

vars ==
    <<games, players, game, play_calls, plays, game_events, rounds, round_answers, scores,
      trivia_game, created, last, inflight, script>>

----------------------------------------------------------------------------
(* Bounds of the model *)

MaxEvents == 14      \* rows of game_events explored
Horizon == 2         \* rows of game_events added after the stage a run starts in
StageLen == MaxEvents - Horizon
MaxSeq == 3          \* current_play_seq explored
MaxGames == 1        \* rows inserted into games
MaxPlayers == 3      \* rows inserted into players

----------------------------------------------------------------------------
(* Values *)

NULL == "null"

Sides == {"home", "away"}
Roles == {"offense", "defense"}

\* the game whose football state is modelled, and its players
G1 == "g1"
RefP == "p1"
HomeP == "p2"
AwayP == "p3"
GhostP == "p9"       \* an id with no players row
Callers == {RefP, HomeP, AwayP, GhostP}

Other(side) == IF side = "home" THEN "away" ELSE "home"

Coalesce(v, d) == IF v = NULL THEN d ELSE v

\* a nullable boolean or number: <<>> is null, <<v>> is the value v
None == <<>>
Some(v) == <<v>>
IsNull(o) == o = <<>>
OrElse(o, d) == IF o = <<>> THEN d ELSE o[1]

Min(a, b) == IF a < b THEN a ELSE b
Max(a, b) == IF a > b THEN a ELSE b

----------------------------------------------------------------------------
(* The database *)

DB ==
    [ games |-> games, players |-> players, game |-> game,
      play_calls |-> play_calls, plays |-> plays, game_events |-> game_events,
      rounds |-> rounds, answers |-> round_answers, scores |-> scores, trivia |-> trivia_game,
      created |-> created ]

\* a games row as inserted by createLobbyAction: the column defaults
GameDefaults ==
    [ phase |-> "lobby", play_subphase |-> NULL,
      possession_side |-> NULL, offense_side |-> NULL, defense_side |-> NULL,
      down |-> 1, distance |-> 10, yard_line |-> 25,
      score_home |-> 0, score_away |-> 0,
      toss_result |-> NULL, toss_winner_side |-> NULL, toss_choice |-> NULL,
      second_half_kickoff_side |-> NULL, current_play_seq |-> 1 ]

\* a result of a server action
Result(db, ok, err, target) == [ db |-> db, ok |-> ok, err |-> err, target |-> target ]
Fail(db, err) == Result(db, FALSE, err, NULL)
Ok(db, target) == Result(db, TRUE, "", target)

\* a game_events row; the payload keeps the fields the play timeline reports
Event(type, seq, yards, turnover, touchdown) ==
    [ type |-> type, seq |-> seq, yards |-> yards, turnover |-> turnover, touchdown |-> touchdown ]
Ev(type) == Event(type, 0, 0, FALSE, FALSE)
EvSeq(type, seq) == Event(type, seq, 0, FALSE, FALSE)

\* an insert that also rewrites the newest row the timeline had
logGameEventInPlace(db, row) ==
    [ db EXCEPT !.game_events =
        IF @ = <<>> THEN <<row>> ELSE Append([ @ EXCEPT ![Len(@)] = row ], row) ]

\* .from("game_events").insert({ game_id, type, payload })
logGameEvent(db, row) == [ db EXCEPT !.game_events = Append(@, row) ]

\* .from("games").update(cols).eq("id", G1): the columns of cols are written
UpdateGame(db, cols) == [ db EXCEPT !.game = cols @@ @ ]

\* .from("players").select(..).eq("id", id).eq("game_id", G1).maybeSingle()
SelectPlayer(db, id) == { p \in db.players : p.id = id /\ p.game_id = G1 }

----------------------------------------------------------------------------
(* play_calls *)

PlayCallRow(player_id, seq, side, role, play_call, difficulty, answer, roll, ready) ==
    [ player_id |-> player_id, seq |-> seq, side |-> side, role |-> role,
      play_call |-> play_call, difficulty |-> difficulty,
      answer |-> answer, roll |-> roll, ready_after_roll |-> ready ]

\* an insert with no conflict target
InsertPlayCall(rows, new, cols) == rows \cup {new}

\* upsert(row, {onConflict: "game_id,player_id,seq"}): the columns named in
\* cols are written; on insert the others take their defaults (in new)
UpsertPlayCall(rows, new, cols) ==
    IF \E r \in rows : r.player_id = new.player_id /\ r.seq = new.seq
    THEN { IF r.player_id = new.player_id /\ r.seq = new.seq
           THEN [ c \in DOMAIN r |-> IF c \in cols THEN new[c] ELSE r[c] ]
           ELSE r : r \in rows }
    ELSE rows \cup {new}

CallsOfSeq(db, seq) == { c \in db.play_calls : c.seq = seq }

\* rows.find(c => c.role === role): the select has no ORDER BY, so the row
\* found is any row of that role.  Each possible outcome is the set holding
\* the row found, or the empty set when there is none
Find(rows, role) ==
    LET m == { c \in rows : c.role = role }
    IN  IF m = {} THEN { {} } ELSE { {c} : c \in m }

\* row?.col ?? dflt for a text column
Field(found, col, dflt) ==
    IF found = {} THEN dflt ELSE Coalesce((CHOOSE c \in found : TRUE)[col], dflt)

\* row?.col for a nullable boolean or number column
OptField(found, col) ==
    IF found = {} THEN None ELSE (CHOOSE c \in found : TRUE)[col]

----------------------------------------------------------------------------
(* game.ts: coin toss, kickoff, drive reset *)

startCoinToss(db) ==
    LET db1 == UpdateGame(db,
                 [ phase |-> "coin_toss", down |-> 1, distance |-> 10, yard_line |-> 25,
                   possession_side |-> NULL, offense_side |-> NULL, defense_side |-> NULL,
                   play_subphase |-> NULL, toss_result |-> NULL,
                   toss_winner_side |-> NULL, toss_choice |-> NULL ])
    IN  { Ok(logGameEvent(db1, Ev("coin_toss_started")), NULL) }

\* possession after the winner's choice: receive -> winner, kick or defer -> the other side
\* the winner of the toss receives whatever it chose
TossPossessionWinner(winner, choice) == winner

TossPossession(winner, choice) ==
    IF choice = "receive" THEN winner ELSE IF choice = "kick" THEN Other(winner) ELSE Other(winner)

TossSecondHalf(winner, choice) == IF choice = "defer" THEN winner ELSE Other(winner)

\* coin is the outcome of Math.random() < 0.5 ? "heads" : "tails"
resolveCoinTossAction(db, awayCall, winnerChoice, coin) ==
    LET winner == IF coin = awayCall THEN "away" ELSE "home"
        possession == TossPossession(winner, winnerChoice)
        db1 == UpdateGame(db,
                 [ toss_result |-> coin, toss_winner_side |-> winner, toss_choice |-> winnerChoice,
                   possession_side |-> possession, offense_side |-> possession,
                   defense_side |-> Other(possession), phase |-> "kickoff",
                   down |-> 1, distance |-> 10, yard_line |-> 25, play_subphase |-> NULL,
                   second_half_kickoff_side |-> TossSecondHalf(winner, winnerChoice) ])
    IN  { Ok(logGameEvent(db1, Ev("coin_toss_result")), NULL) }

flipCoinAction(db, requesterId, awayCall, coin) ==
    LET ps == SelectPlayer(db, requesterId)
    IN  IF ps = {} THEN { Fail(db, "Player not found.") }
        ELSE LET player == CHOOSE p \in ps : TRUE
                 isAllowed == player.side = "away" \/ player.role = "ref"
                 winner == IF coin = awayCall THEN "away" ELSE "home"
                 db1 == UpdateGame(db,
                          [ toss_result |-> coin, toss_winner_side |-> winner,
                            toss_choice |-> NULL, phase |-> "coin_toss_choice" ])
             IN  IF ~isAllowed
                 THEN { Fail(db, "Only away side (or ref) can call the toss.") }
                 ELSE { Ok(logGameEvent(db1, Ev("coin_toss_flipped")), NULL) }

chooseTossOptionAction(db, requesterId, choice) ==
    LET g == db.game
        ps == SelectPlayer(db, requesterId)
    IN  IF g.toss_winner_side = NULL THEN { Fail(db, "Toss not resolved yet.") }
        ELSE IF ps = {} THEN { Fail(db, "Player not found.") }
        ELSE LET player == CHOOSE p \in ps : TRUE
                 isAllowed == player.role = "ref" \/ player.side = g.toss_winner_side
                 winner == g.toss_winner_side
                 possession == TossPossession(winner, choice)
                 db1 == UpdateGame(db,
                          [ toss_choice |-> choice, possession_side |-> possession,
                            offense_side |-> possession, defense_side |-> Other(possession),
                            second_half_kickoff_side |-> TossSecondHalf(winner, choice),
                            phase |-> "kickoff", down |-> 1, distance |-> 10,
                            yard_line |-> 25, play_subphase |-> NULL ])
             IN  IF ~isAllowed
                 THEN { Fail(db, "Only the toss winner (or ref) can choose.") }
                 ELSE { Ok(logGameEvent(db1, Ev("coin_toss_choice")), NULL) }

resolveKickoffTouchbackAction(db) ==
    LET g == db.game
        possession == Coalesce(g.possession_side, "home")
        db1 == UpdateGame(db,
                 [ phase |-> "drive", offense_side |-> possession,
                   defense_side |-> Other(possession), down |-> 1, distance |-> 10,
                   yard_line |-> 25, play_subphase |-> "play_call" ])
    IN  IF g.phase # "kickoff" THEN { Fail(db, "Not in kickoff phase.") }
        ELSE { Ok(logGameEvent(db1, Ev("kickoff_touchback")), NULL) }

\* optPossession is NULL or a side; optYardLine is None or Some(n)
resetDriveAction(db, requesterId, optPossession, optYardLine) ==
    LET g == db.game
        ps == SelectPlayer(db, requesterId)
        possession == Coalesce(optPossession, Coalesce(g.possession_side, "home"))
        yard_line == OrElse(optYardLine, 25)
        db1 == UpdateGame(db,
                 [ phase |-> "drive", play_subphase |-> "play_call", down |-> 1,
                   distance |-> 10, yard_line |-> yard_line, possession_side |-> possession,
                   offense_side |-> possession, defense_side |-> Other(possession),
                   current_play_seq |-> 1 ])
        db2 == [ db1 EXCEPT !.play_calls = {} ]
    IN  IF ps = {} \/ (CHOOSE p \in ps : TRUE).role # "ref"
        THEN { Fail(db, "Only the ref can reset the drive.") }
        ELSE { Ok(logGameEvent(db2, Ev("drive_reset")), NULL) }

----------------------------------------------------------------------------
(* game.ts: the play cycle *)

\* !["play_call", "question", null].includes(game.play_subphase ?? "")
AcceptsPlayCalls(g) ==
    g.phase = "drive" /\ Coalesce(g.play_subphase, "") \in {"play_call", "question", NULL}

\* a side check that ignores the role asked for
ExpectedSideOfOffense(g, role) == g.offense_side

\* role === "offense" ? game.offense_side : game.defense_side
ExpectedSide(g, role) == IF role = "offense" THEN g.offense_side ELSE g.defense_side

submitPlayCallAction(db, playerId, role, playCall, difficulty) ==
    LET g == db.game
        ps == SelectPlayer(db, playerId)
    IN  IF ~AcceptsPlayCalls(g) THEN { Fail(db, "Not accepting play calls right now.") }
        ELSE IF ps = {} THEN { Fail(db, "Player not found.") }
        ELSE LET player == CHOOSE p \in ps : TRUE
                 expectedSide == ExpectedSide(g, role)
                 currentSeq == g.current_play_seq
                 row == PlayCallRow(playerId, currentSeq, player.side, role, playCall,
                                    difficulty, None, None, FALSE)
                 db1 == [ db EXCEPT !.play_calls =
                            UpsertPlayCall(@, row,
                              {"player_id", "seq", "side", "role", "play_call", "difficulty"}) ]
                 calls == CallsOfSeq(db1, currentSeq)
                 offenseDone == \E c \in calls : c.role = "offense"
                 defenseDone == \E c \in calls : c.role = "defense"
             IN  IF player.side # expectedSide
                 THEN { Fail(db, "You are not on this side for the current play.") }
                 ELSE IF offenseDone /\ defenseDone
                 THEN { Ok(logGameEvent(UpdateGame(db1, [ play_subphase |-> "question" ]),
                                        EvSeq("play_calls_locked", currentSeq)), role) }
                 ELSE { Ok(UpdateGame(logGameEvent(db1, EvSeq("play_call_submitted", currentSeq)),
                                      [ play_subphase |-> "play_call" ]), role) }

\* forSide ?? (player.side === offense_side ? "offense"
\*             : player.side === defense_side ? "defense" : "offense")
TargetRole(g, player, forSide) ==
    IF forSide # NULL THEN forSide
    ELSE IF player.side = g.offense_side THEN "offense"
    ELSE IF player.side = g.defense_side THEN "defense"
    ELSE "offense"

\* !!row?.answer: a wrong answer counts as no answer
HasAnswerTruthy(found) == found # {} /\ (CHOOSE c \in found : TRUE).answer = Some(TRUE)

\* !(!row || row.answer === null || row.answer === undefined)
HasAnswer(found) == found # {} /\ ~IsNull((CHOOSE c \in found : TRUE).answer)

\* the part of submitQuestionAnswerAction after the first select of the play
\* calls found offenseCall and defenseCall
AnswerWith(db, player, isCorrect, forSide, offenseCall, defenseCall) ==
    LET g == db.game
        seq == g.current_play_seq
        offensePlay == Field(offenseCall, "play_call", "Run")
        offenseDiff == Field(offenseCall, "difficulty", "easy")
        defensePlay == Field(defenseCall, "play_call", "Pass D")
        targetRole == TargetRole(g, player, forSide)
        existing == IF targetRole = "offense" THEN offenseCall ELSE defenseCall
        row == PlayCallRow(player.id, seq, player.side, targetRole,
                 IF targetRole = "offense" THEN offensePlay ELSE defensePlay,
                 IF targetRole = "offense" THEN offenseDiff ELSE "n/a",
                 Some(isCorrect), OptField(existing, "roll"),
                 IF existing = {} THEN FALSE
                 ELSE (CHOOSE c \in existing : TRUE).ready_after_roll)
        db1 == [ db EXCEPT !.play_calls = UpsertPlayCall(@, row, DOMAIN row) ]
        answers == CallsOfSeq(db1, seq)
    IN  { IF ~HasAnswer(offenseAnswer) \/ ~HasAnswer(defenseAnswer)
          THEN Ok(logGameEvent(db1, EvSeq("answer_submitted", seq)), targetRole)
          ELSE Ok(logGameEvent(UpdateGame(db1, [ play_subphase |-> "rolls" ]),
                               EvSeq("rolls_started", seq)), targetRole)
          : offenseAnswer \in Find(answers, "offense"),
            defenseAnswer \in Find(answers, "defense") }

\* forSide is NULL (not given), "offense" or "defense"
submitQuestionAnswerAction(db, playerId, isCorrect, forSide) ==
    LET g == db.game
        ps == SelectPlayer(db, playerId)
    IN  IF g.phase # "drive" \/ g.play_subphase # "question"
        THEN { Fail(db, "Not accepting answers right now.") }
        ELSE IF ps = {} THEN { Fail(db, "Player not found.") }
        ELSE LET player == CHOOSE p \in ps : TRUE
                 isRef == player.role = "ref"
                 calls == CallsOfSeq(db, g.current_play_seq)
             IN  IF ~isRef /\ player.side # g.offense_side /\ player.side # g.defense_side
                 THEN { Fail(db, "Not part of this play.") }
                 ELSE UNION { AnswerWith(db, player, isCorrect, forSide, offenseCall, defenseCall)
                              : offenseCall \in Find(calls, "offense"),
                                defenseCall \in Find(calls, "defense") }

\* rollByDifficulty: the values randomInt can give
rollByDifficulty(difficulty) ==
    CASE difficulty = "easy" -> 1..4
      [] difficulty = "medium" -> 2..8
      [] difficulty = "hard" -> 1..10
      [] difficulty = "hail_mary" -> 1..20
      [] OTHER -> 1..4

\* the part of submitRollAction after the first select of the play calls
\* found offenseCall and defenseCall
RollWith(db, player, manualRoll, forSide, offenseCall, defenseCall) ==
    LET g == db.game
        seq == g.current_play_seq
        targetRole == TargetRole(g, player, forSide)
        existing == IF targetRole = "offense" THEN offenseCall ELSE defenseCall
        offenseDiff == Field(offenseCall, "difficulty", "easy")
        offensePlay == Field(offenseCall, "play_call", "Run")
        defensePlay == Field(defenseCall, "play_call", "Pass D")
        rollVals == IF ~IsNull(manualRoll) THEN { manualRoll[1] }
                    ELSE IF targetRole = "offense" THEN rollByDifficulty(offenseDiff)
                    ELSE 1..4
        row(rollVal) ==
            PlayCallRow(player.id, seq, player.side, targetRole,
              IF targetRole = "offense" THEN offensePlay ELSE defensePlay,
              IF targetRole = "offense" THEN offenseDiff ELSE "n/a",
              OptField(existing, "answer"), Some(rollVal),
              IF existing = {} THEN FALSE
              ELSE (CHOOSE c \in existing : TRUE).ready_after_roll)
        db1(rollVal) ==
            [ db EXCEPT !.play_calls = UpsertPlayCall(@, row(rollVal), DOMAIN row(rollVal)) ]
        db2(rollVal) == logGameEvent(db1(rollVal), EvSeq("roll_submitted", seq))
    IN  IF ~IsNull(OptField(existing, "roll"))
        THEN { Fail(db, "Roll already submitted for this side.") }
        ELSE UNION {
               { IF ~IsNull(OptField(offenseRow, "roll")) /\ ~IsNull(OptField(defenseRow, "roll"))
                 THEN Ok(logGameEvent(UpdateGame(db2(rollVal), [ play_subphase |-> "rolls_done" ]),
                                      EvSeq("rolls_completed", seq)), targetRole)
                 ELSE Ok(db2(rollVal), targetRole)
                 : offenseRow \in Find(CallsOfSeq(db1(rollVal), seq), "offense"),
                   defenseRow \in Find(CallsOfSeq(db1(rollVal), seq), "defense") }
               : rollVal \in rollVals }

\* a guard that also lets a roll in while the answers are collected
AcceptsRollsEarly(g) == g.phase = "drive" /\ g.play_subphase \in {"question", "rolls"}

\* !(game.phase !== "drive" || game.play_subphase !== "rolls")
AcceptsRolls(g) == g.phase = "drive" /\ g.play_subphase = "rolls"

\* manualRoll is None (not given) or Some(n)
submitRollAction(db, playerId, manualRoll, forSide) ==
    LET g == db.game
        ps == SelectPlayer(db, playerId)
    IN  IF ~AcceptsRolls(g)
        THEN { Fail(db, "Not accepting rolls right now.") }
        ELSE IF ps = {} THEN { Fail(db, "Player not found.") }
        ELSE LET player == CHOOSE p \in ps : TRUE
                 calls == CallsOfSeq(db, g.current_play_seq)
             IN  UNION { RollWith(db, player, manualRoll, forSide, offenseCall, defenseCall)
                         : offenseCall \in Find(calls, "offense"),
                           defenseCall \in Find(calls, "defense") }

----------------------------------------------------------------------------
(* game.ts: play resolution *)

\* the keywords the resolution looks for that call.toLowerCase() includes,
\* for the calls the game page offers and the defaults of the actions
Keywords(call) ==
    CASE call = "Run" -> {"run"}
      [] call = "Pass" -> {"pass"}
      [] call = "Screen" -> {"screen"}
      [] call = "Trick" -> {"trick"}
      [] call = "Hail Mary" -> {"hail"}
      [] call = "Run stop" -> {"run", "run stop"}
      [] call = "Pass D" -> {"pass"}
      [] call = "Blitz" -> {"blitz"}
      [] call = "Zone" -> {}
      [] OTHER -> {}

Includes(call, kw) == kw \in Keywords(call)

\* matchupMod(offense, defense, offenseCorrect).mod: the values it can return
matchupModSet(offense, defense, offenseCorrect) ==
    IF Includes(offense, "run") THEN
        IF Includes(defense, "run stop") THEN (-3)..(-1)
        ELSE IF Includes(defense, "pass") THEN 2..4
        ELSE IF Includes(defense, "blitz") THEN (IF offenseCorrect THEN 3..5 ELSE (-3)..(-1))
        ELSE {0}
    ELSE IF Includes(offense, "screen") THEN
        IF Includes(defense, "blitz") THEN (IF offenseCorrect THEN 4..6 ELSE (-2)..0)
        ELSE 0..2
    ELSE IF Includes(offense, "deep") \/ Includes(offense, "hail") THEN
        IF Includes(defense, "pass") THEN (-5)..(-2)
        ELSE IF Includes(defense, "blitz") THEN (IF offenseCorrect THEN 4..7 ELSE (-6)..(-3))
        ELSE {0}
    ELSE IF Includes(offense, "pass") THEN
        IF Includes(defense, "pass") THEN (-3)..(-1)
        ELSE IF Includes(defense, "run") THEN 2..4
        ELSE IF Includes(defense, "blitz") THEN (IF offenseCorrect THEN 3..5 ELSE (-4)..(-2))
        ELSE {0}
    ELSE IF Includes(offense, "trick") THEN (-2)..6
    ELSE {0}

\* matchupMod(..).turnoverChance
matchupTurnoverChance(offense) ==
    ~Includes(offense, "run") /\ ~Includes(offense, "screen")
    /\ (Includes(offense, "deep") \/ Includes(offense, "hail"))

\* the values of yards after the clamp to -20..60, for given dice
YardsSet(offensePlay, offenseDiff, defensePlay, dieOffense, dieDefense, oc, dc) ==
    LET isPassLike == Includes(offensePlay, "pass") \/ Includes(offensePlay, "screen")
                      \/ Includes(offensePlay, "hail")
        isHail == Includes(offensePlay, "hail")
        rollDiff == dieDefense - dieOffense
        base == IF isHail THEN
                    (IF oc THEN (IF dieOffense >= 17 THEN 30..50 ELSE 12..24) ELSE {0})
                ELSE IF isPassLike THEN
                    (IF oc THEN {dieOffense + (IF offenseDiff = "hard" THEN 3 ELSE 1)} ELSE {0})
                ELSE IF Includes(offensePlay, "run") THEN
                    (IF oc THEN {dieOffense + 1} ELSE {-r : r \in 1..3})
                ELSE (IF oc THEN {dieOffense} ELSE {-r : r \in 1..2})
        mods == matchupModSet(offensePlay, defensePlay, oc)
        applied(m) == IF isPassLike /\ ~oc /\ ~dc THEN Max(0, m) ELSE m
        withMod == { y + applied(m) : y \in base, m \in mods }
        afterDefense ==
            IF dc THEN
                (IF ~oc THEN
                    (IF isPassLike /\ rollDiff > 2
                     THEN { (y \div 2) - r - e : y \in withMod, r \in 1..3, e \in 0..2 }
                     ELSE { (y \div 2) - r : y \in withMod, r \in 1..3 })
                 ELSE { y \div 2 : y \in withMod })
            ELSE IF oc THEN { y + 2 : y \in withMod }
            ELSE withMod
        final == IF isHail /\ ~oc /\ dieOffense <= 3 /\ matchupTurnoverChance(offensePlay)
                 THEN { -r : r \in 5..12 }
                 ELSE afterDefense
    IN  { Max(-20, Min(60, y)) : y \in final }

\* newYardLine: the spot after `yards`, kept on the field
NewYardLineUnclamped(g, yards) == g.yard_line + (IF g.offense_side = "home" THEN yards ELSE -yards)

NewYardLine(g, yards) ==
    Min(100, Max(0, g.yard_line + (IF g.offense_side = "home" THEN yards ELSE -yards)))

\* nextDown before the test for a turnover on downs
NextDownKept(g, remaining) == IF remaining <= 0 THEN 1 ELSE g.down

NextDown(g, remaining) == IF remaining <= 0 THEN 1 ELSE g.down + 1

\* the side that reaches the goal line it attacks, or NULL
TouchdownAtOwnGoal(g, newYardLine) ==
    IF g.offense_side = "home" /\ newYardLine <= 0 THEN "home"
    ELSE IF g.offense_side = "away" /\ newYardLine >= 100 THEN "away"
    ELSE NULL

Touchdown(g, newYardLine) ==
    IF g.offense_side = "home" /\ newYardLine >= 100 THEN "home"
    ELSE IF g.offense_side = "away" /\ newYardLine <= 0 THEN "away"
    ELSE NULL

\* offenseSide after the play
OffenseSideSwapped(g, turnover, touchdown) == g.defense_side

OffenseSideAfter(g, turnover, touchdown) ==
    IF touchdown = "home" THEN "away" ELSE IF touchdown = "away" THEN "home"
    ELSE IF turnover THEN g.defense_side ELSE g.offense_side

\* a touchdown that counts 6
ScoreAfterSix(score, scored) == score + (IF scored THEN 6 ELSE 0)

\* scoreHome += 7, scoreAway += 7
ScoreAfter(score, scored) == score + (IF scored THEN 7 ELSE 0)

\* a sequence number that is not advanced
NextSeqKept(g) == g.current_play_seq

\* nextSeq = (game.current_play_seq ?? 1) + 1
NextSeq(g) == g.current_play_seq + 1

\* the game row and the plays row that finalizePlayResolution writes when the
\* play gains `yards` (before the field clamp) with the dice dieOffense, dieDefense
Resolution(g, seq, offensePlay, offenseDiff, defensePlay, dieOffense, dieDefense, oc, dc, yards) ==
    LET home == g.offense_side = "home"
        newYardLine == NewYardLine(g, yards)
        gained == IF home THEN newYardLine - g.yard_line ELSE g.yard_line - newYardLine
        remaining == g.distance - gained
        down1 == NextDown(g, remaining)
        distance1 == IF remaining > 0 THEN remaining ELSE 10
        turnover == down1 > 4
        touchdownHome == Touchdown(g, newYardLine) = "home"
        touchdownAway == Touchdown(g, newYardLine) = "away"
        touchdown == touchdownHome \/ touchdownAway
        phase == IF touchdown THEN "kickoff" ELSE g.phase
        offenseSide == OffenseSideAfter(g, turnover, Touchdown(g, newYardLine))
        defenseSide == IF touchdownHome THEN "home" ELSE IF touchdownAway THEN "away"
                       ELSE IF turnover THEN g.offense_side ELSE g.defense_side
    IN  [ cols |->
            [ play_subphase |-> IF phase = "kickoff" THEN NULL ELSE "play_call",
              phase |-> phase,
              down |-> IF touchdown \/ turnover THEN 1 ELSE down1,
              distance |-> IF touchdown \/ turnover THEN 10 ELSE distance1,
              yard_line |-> IF touchdown THEN 25 ELSE newYardLine,
              possession_side |-> offenseSide,
              offense_side |-> offenseSide,
              defense_side |-> defenseSide,
              score_home |-> ScoreAfter(g.score_home, touchdownHome),
              score_away |-> ScoreAfter(g.score_away, touchdownAway),
              current_play_seq |-> NextSeq(g) ],
          play |->
            [ seq |-> seq, offense_side |-> g.offense_side, defense_side |-> g.defense_side,
              call_offense |-> offensePlay, call_defense |-> defensePlay,
              difficulty |-> offenseDiff, offense_roll |-> dieOffense,
              defense_roll |-> dieDefense, offense_correct |-> oc, defense_correct |-> dc,
              yards |-> gained, turnover |-> turnover,
              result_text |-> IF turnover THEN <<"Turnover on downs">>
                              ELSE <<"Gained", gained, "yards">> ],
          event |-> Event("play_resolved", seq, gained, turnover, phase = "kickoff") ]

\* the part of finalizePlayResolution after the select of the play calls
\* found the rows offense and defense
FinalizeWith(db, seq, offense, defense, target) ==
    LET g == db.game
        offensePlay == Field(offense, "play_call", "Run")
        offenseDiff == Field(offense, "difficulty", "easy")
        defensePlay == Field(defense, "play_call", "Pass D")
        diceOffense == IF IsNull(OptField(offense, "roll")) THEN rollByDifficulty(offenseDiff)
                       ELSE { OptField(offense, "roll")[1] }
        diceDefense == IF IsNull(OptField(defense, "roll")) THEN 1..4
                       ELSE { OptField(defense, "roll")[1] }
        oc == OrElse(OptField(offense, "answer"), FALSE)
        dc == OrElse(OptField(defense, "answer"), FALSE)
        nextSeq == NextSeq(g)
        written(r) ==
            LET db1 == UpdateGame(db, r.cols)
                db2 == [ db1 EXCEPT !.play_calls = { c \in @ : c.seq # nextSeq } ]
                db3 == [ db2 EXCEPT !.plays = Append(@, r.play) ]
            IN  Ok(logGameEvent(db3, r.event), target)
    IN  IF offense = {} \/ defense = {} THEN { Fail(db, "Missing play data.") }
        ELSE { written(r) :
                 r \in UNION { UNION { { Resolution(g, seq, offensePlay, offenseDiff, defensePlay,
                                                    dO, dD, oc, dc, y)
                                         : y \in YardsSet(offensePlay, offenseDiff, defensePlay,
                                                          dO, dD, oc, dc) }
                                       : dD \in diceDefense }
                               : dO \in diceOffense } }

finalizePlayResolution(db, seq, target) ==
    LET calls == CallsOfSeq(db, seq)
    IN  UNION { FinalizeWith(db, seq, offense, defense, target)
                : offense \in Find(calls, "offense"), defense \in Find(calls, "defense") }

continueAfterRollAction(db, playerId, forSide) ==
    LET g == db.game
        ps == SelectPlayer(db, playerId)
    IN  IF g.phase # "drive" \/ g.play_subphase # "rolls_done"
        THEN { Fail(db, "Not ready to resolve yet.") }
        ELSE IF ps = {} THEN { Fail(db, "Player not found.") }
        ELSE LET player == CHOOSE p \in ps : TRUE
                 seq == g.current_play_seq
                 targetRole == TargetRole(g, player, forSide)
                 db1 == [ db EXCEPT !.play_calls =
                            { IF c.seq = seq /\ c.role = targetRole
                              THEN [ c EXCEPT !.ready_after_roll = TRUE ] ELSE c : c \in @ } ]
                 readiness == CallsOfSeq(db1, seq)
                 offenseReady == \E r \in readiness : r.role = "offense" /\ r.ready_after_roll
                 defenseReady == \E r \in readiness : r.role = "defense" /\ r.ready_after_roll
                 db2 == logGameEvent(db1, EvSeq("ready_after_roll", seq))
             IN  IF offenseReady /\ defenseReady
                 THEN UNION { finalizePlayResolution(d, seq, targetRole) : d \in { db2 } }
                 ELSE { Ok(db2, targetRole) }

----------------------------------------------------------------------------------------------------------------------------------------
(* lobby.ts *)

\* a display name or a game code is a sequence of characters
Space == " "

RECURSIVE TrimStart(_)
TrimStart(str) == IF str # <<>> /\ Head(str) = Space THEN TrimStart(Tail(str)) ELSE str

RECURSIVE TrimEnd(_)
TrimEnd(str) ==
    IF str # <<>> /\ str[Len(str)] = Space THEN TrimEnd(SubSeq(str, 1, Len(str) - 1)) ELSE str

\* String.prototype.trim
Trim(str) == TrimEnd(TrimStart(str))

\* String.prototype.toUpperCase, on the characters of the codes explored
UpperChar(ch) == CASE ch = "k" -> "K" [] ch = "m" -> "M" [] OTHER -> ch
ToUpperCase(str) == [ i \in 1..Len(str) |-> UpperChar(str[i]) ]

\* the ids gen_random_uuid() gives the rows of games and of players, in the
\* order of their insertion
GameIds == <<"g1", "g2", "g3">>
PlayerIds == <<"p1", "p2", "p3", "p4", "p5", "p6">>

PlayerRow(id, game_id, name, role, side, ready, created_at) ==
    [ id |-> id, game_id |-> game_id, display_name |-> name, role |-> role,
      side |-> side, ready |-> ready, created_at |-> created_at ]

GameRow(id, code, status, mode, locked, host) ==
    [ id |-> id, code |-> code, status |-> status, mode |-> mode, lobby_locked |-> locked,
      host_player_id |-> host ]

\* the message of the error PostgREST returns for .single() on no row
NoSingleRow == "JSON object requested, multiple (or no) rows returned"

\* an insert into players under a schema without the unique constraint
InsertPlayerUnchecked(db, row) ==
    [ db |-> [ db EXCEPT !.players = @ \cup {row}, !.created.players = @ + 1 ], error |-> "" ]

\* .from("players").insert(row): the insert and its error; the constraint
\* unique_game_display_name refuses a second row with the game and the name
InsertPlayer(db, row) ==
    IF \E p \in db.players : p.game_id = row.game_id /\ p.display_name = row.display_name
    THEN [ db |-> db,
           error |-> "duplicate key value violates unique constraint unique_game_display_name" ]
    ELSE [ db |-> [ db EXCEPT !.players = @ \cup {row}, !.created.players = @ + 1 ],
           error |-> "" ]

\* (playerError?.message || "").includes("unique_game_display_name")
IsDuplicateName(message) ==
    message = "duplicate key value violates unique constraint unique_game_display_name"

\* code is the code generateCode() gave
createLobbyAction(db, displayName, code) ==
    LET gid == GameIds[db.created.games + 1]
        pid == PlayerIds[db.created.players + 1]
        db1 == [ db EXCEPT !.games = @ \cup { GameRow(gid, code, "lobby_open", "trivia", FALSE, NULL) },
                           !.created.games = @ + 1 ]
        ins == InsertPlayer(db1, PlayerRow(pid, gid, Trim(displayName), "ref", NULL, TRUE,
                                           db.created.players + 1))
        db2 == [ ins.db EXCEPT !.games =
                   { IF g.id = gid THEN [ g EXCEPT !.host_player_id = pid ] ELSE g : g \in @ } ]
    IN  IF Trim(displayName) = <<>> THEN { Fail(db, "Display name is required.") }
        ELSE IF \E g \in db.games : g.code = code
        THEN { Fail(db, "duplicate key value violates unique constraint games_code_key") }
        ELSE IF ins.error # ""
        THEN { Fail(db1, IF IsDuplicateName(ins.error)
                         THEN "Name already taken in this lobby." ELSE ins.error) }
        ELSE { Ok(db2, pid) }

\* a join that does not look at lobby_locked
joinLobbyFindUnlocked(db, displayName, code) ==
    LET found == { g \in db.games : g.code = ToUpperCase(Trim(code)) /\ g.status = "lobby_open" }
    IN  IF Trim(displayName) = <<>> THEN { [ ok |-> FALSE, err |-> "Display name is required." ] }
        ELSE IF Trim(code) = <<>> THEN { [ ok |-> FALSE, err |-> "Game code is required." ] }
        ELSE IF found = {} THEN { [ ok |-> FALSE, err |-> NoSingleRow ] }
        ELSE { [ ok |-> TRUE, game |-> g ] : g \in found }

\* joinLobbyAction up to its select of the game: an error, or the row read
joinLobbyFind(db, displayName, code) ==
    LET normalizedCode == ToUpperCase(Trim(code))
        found == { g \in db.games : g.code = normalizedCode /\ g.status = "lobby_open" }
    IN  IF Trim(displayName) = <<>> THEN { [ ok |-> FALSE, err |-> "Display name is required." ] }
        ELSE IF Trim(code) = <<>> THEN { [ ok |-> FALSE, err |-> "Game code is required." ] }
        ELSE IF found = {} THEN { [ ok |-> FALSE, err |-> NoSingleRow ] }
        ELSE { IF g.lobby_locked THEN [ ok |-> FALSE, err |-> "Lobby is locked." ]
               ELSE [ ok |-> TRUE, game |-> g ] : g \in found }

\* joinLobbyAction from its insert of the player, for the game row read
joinLobbyInsert(db, displayName, g) ==
    LET pid == PlayerIds[db.created.players + 1]
        ins == InsertPlayer(db, PlayerRow(pid, g.id, Trim(displayName), "player", NULL, FALSE,
                                          db.created.players + 1))
    IN  IF ins.error # ""
        THEN { Fail(db, IF IsDuplicateName(ins.error)
                        THEN "Name already taken in this lobby." ELSE ins.error) }
        ELSE { Ok(ins.db, pid) }

joinLobbyAction(db, displayName, code) ==
    UNION { IF f.ok THEN joinLobbyInsert(db, displayName, f.game) ELSE { Fail(db, f.err) }
            : f \in joinLobbyFind(db, displayName, code) }

\* .eq("role", "ref").order("created_at", { ascending: true }).limit(1).single()
Host(db, gameId) ==
    LET refs == { p \in db.players : p.game_id = gameId /\ p.role = "ref" }
    IN  { p \in refs : \A q \in refs : p.created_at <= q.created_at }

IsHost(db, gameId, requesterId) == \E h \in Host(db, gameId) : h.id = requesterId

UpdatePlayers(db, match(_), change(_)) ==
    [ db EXCEPT !.players = { IF match(p) THEN change(p) ELSE p : p \in @ } ]

updatePlayerSideAction(db, playerId, gameId, requesterId, side) ==
    IF ~IsHost(db, gameId, requesterId) THEN { Fail(db, "Host not found for this lobby.") }
    ELSE { Ok(UpdatePlayers(db, LAMBDA p : p.id = playerId /\ p.game_id = gameId,
                                LAMBDA p : [ p EXCEPT !.side = side ]), playerId) }

startGameAction(db, gameId, requesterId) ==
    LET gameRow == { g \in db.games : g.id = gameId }
        ps == { p \in db.players : p.game_id = gameId }
        trivia == \E g \in gameRow : g.mode = "trivia"
        participants == IF trivia THEN { p \in ps : p.role # "ref" }
                        ELSE { p \in ps : p.side \in Sides }
        allReady == \A p \in participants : p.ready
        db1 == [ db EXCEPT !.games =
                   { IF g.id = gameId /\ g.status = "lobby_open"
                     THEN [ g EXCEPT !.status = "in_progress" ] ELSE g : g \in @ } ]
        db2 == UpdatePlayers(db1, LAMBDA p : p.game_id = gameId,
                                  LAMBDA p : [ p EXCEPT !.ready = FALSE ])
    IN  IF ~IsHost(db, gameId, requesterId) THEN { Fail(db, "Only the ref can start the game.") }
        ELSE IF trivia /\ participants = {}
        THEN { Fail(db, "Need at least one player to start.") }
        ELSE IF ~trivia /\ (\E side \in Sides : \A p \in participants : p.side # side)
        THEN { Fail(db, "Both teams need at least one player before starting.") }
        ELSE IF ~allReady THEN { Fail(db, "All players must be ready to start.") }
        ELSE { Ok(db2, NULL) }

leaveLobbyAction(db, playerId, gameId) ==
    LET player == { p \in db.players : p.id = playerId /\ p.game_id = gameId }
        db1 == [ db EXCEPT !.players = @ \ player ]
        rest == { p \in db1.players : p.game_id = gameId }
        nextHost == { p \in rest : \A q \in rest : p.created_at <= q.created_at }
        db2 == UpdatePlayers(db1, LAMBDA p : p \in nextHost, LAMBDA p : [ p EXCEPT !.role = "ref" ])
        db3 == [ db2 EXCEPT !.games =
                   { IF g.id = gameId
                     THEN [ g EXCEPT !.host_player_id = (CHOOSE h \in nextHost : TRUE).id ]
                     ELSE g : g \in @ } ]
    IN  IF (\E p \in player : p.role = "ref") /\ nextHost # {}
        THEN { Ok(db3, playerId) } ELSE { Ok(db1, playerId) }

setReadyAction(db, playerId, gameId, ready) ==
    { Ok(UpdatePlayers(db, LAMBDA p : p.id = playerId /\ p.game_id = gameId,
                           LAMBDA p : [ p EXCEPT !.ready = ready ]), playerId) }

kickPlayerAction(db, requesterId, playerId, gameId) ==
    IF ~IsHost(db, gameId, requesterId) THEN { Fail(db, "Only the ref can kick players.") }
    ELSE { Ok([ db EXCEPT !.players = { p \in @ : ~(p.id = playerId /\ p.game_id = gameId) } ],
              playerId) }

setLobbyLockedAction(db, requesterId, gameId, locked) ==
    IF ~IsHost(db, gameId, requesterId)
    THEN { Fail(db, "Only the ref can lock or unlock the lobby.") }
    ELSE { Ok([ db EXCEPT !.games =
                  { IF g.id = gameId THEN [ g EXCEPT !.lobby_locked = locked ] ELSE g : g \in @ } ],
              NULL) }

----------------------------------------------------------------------------
(* The state after the lobby: one started game with a ref and a player on each side *)

\* the trivia columns of a players row and of a games row as inserted
ScoreDefaults == [ score |-> 0, correct_count |-> 0, incorrect_count |-> 0 ]
TriviaDefaults == [ winner_player_id |-> NULL, target_score |-> 25 ]

\* the tables before any request
EmptyDB ==
    [ games |-> {}, players |-> {}, game |-> GameDefaults, play_calls |-> {},
      plays |-> <<>>, game_events |-> <<>>,
      rounds |-> {}, answers |-> {},
      scores |-> [ id \in { PlayerIds[i] : i \in 1..Len(PlayerIds) } |-> ScoreDefaults ],
      trivia |-> TriviaDefaults,
      created |-> [ games |-> 0, players |-> 0 ] ]

\* the databases the request leaves the databases dbs in
Then(dbs, request(_)) == { r.db : r \in UNION { request(d) : d \in dbs } }

\* "r" creates the lobby K, "h" and "a" join it, the ref seats them, they
\* set ready
SeatedDBs ==
    LET opened == Then({ EmptyDB }, LAMBDA d : createLobbyAction(d, <<"r">>, <<"K">>))
        joined1 == Then(opened, LAMBDA d : joinLobbyAction(d, <<"h">>, <<"k">>))
        joined2 == Then(joined1, LAMBDA d : joinLobbyAction(d, <<"a">>, <<"K">>))
        seated1 == Then(joined2, LAMBDA d : updatePlayerSideAction(d, HomeP, G1, RefP, "home"))
        seated2 == Then(seated1, LAMBDA d : updatePlayerSideAction(d, AwayP, G1, RefP, "away"))
        ready1 == Then(seated2, LAMBDA d : setReadyAction(d, HomeP, G1, TRUE))
    IN  Then(ready1, LAMBDA d : setReadyAction(d, AwayP, G1, TRUE))

\* ... and the ref starts the game
StartedDB == CHOOSE d \in Then(SeatedDBs, LAMBDA d : startGameAction(d, G1, RefP)) : TRUE

The(results) == CHOOSE r \in results : TRUE

(* Inputs of the requests *)

Coins == {"heads", "tails"}
AwayCalls == {"heads"}
TossChoices == {"receive", "kick", "defer"}
OffenseCalls == {"Run", "Hail Mary"}
DefenseCalls == {"Pass D", "Blitz"}
Difficulties == {"easy"}
ForSide == {NULL, "offense", "defense"}
ManualRolls == {None}
ResetYardLines == {None}
ResetPossessions == {NULL}
\* where the plays of the stages start: at the touchback spot, or where the
\* ref put the ball
StartYardLines == {95, 5}

\* a player of the side
PlayerOfSide(side) == IF side = "home" THEN HomeP ELSE AwayP

Offense(db) == PlayerOfSide(db.game.offense_side)
Defense(db) == PlayerOfSide(db.game.defense_side)

\* The stages of one play, each the set of databases a run of the server
\* actions leaves: the ref starts the coin toss n times
RECURSIVE TossedDBs(_)
TossedDBs(n) ==
    IF n = 0 THEN { StartedDB } ELSE { The(startCoinToss(d)).db : d \in TossedDBs(n - 1) }

\* ... the away player calls heads and the coin falls
FlippedDBs ==
    { The(flipCoinAction(d, AwayP, "heads", coin)).db :
        d \in UNION { TossedDBs(n) : n \in 1..StageLen }, coin \in Coins }

\* ... the ref applies "receive" for the winner
KickoffDBs == { The(chooseTossOptionAction(d, RefP, "receive")).db : d \in FlippedDBs }

\* ... the kickoff is a touchback, or the ref puts the ball on a yard line
PlayCallDBs ==
    { The(resolveKickoffTouchbackAction(d)).db : d \in KickoffDBs }
    \cup { The(resetDriveAction(d, RefP, NULL, Some(yl))).db : d \in KickoffDBs, yl \in StartYardLines }

\* ... offense and defense submit their calls
OffenseCalledDBs ==
    { The(submitPlayCallAction(d, Offense(d), "offense", "Run", "easy")).db : d \in PlayCallDBs }

QuestionDBs ==
    { The(submitPlayCallAction(d, Defense(d), "defense", "Pass D", "n/a")).db :
        d \in OffenseCalledDBs }

\* ... their answers, the offense right and the defense wrong
OffenseAnsweredDBs ==
    { The(submitQuestionAnswerAction(d, Offense(d), TRUE, NULL)).db : d \in QuestionDBs }

RollsDBs ==
    { The(submitQuestionAnswerAction(d, Defense(d), FALSE, NULL)).db : d \in OffenseAnsweredDBs }

\* ... their rolls
OffenseRolledDBs ==
    { The(submitRollAction(d, Offense(d), Some(3), NULL)).db : d \in RollsDBs }

RollsDoneDBs ==
    { The(submitRollAction(d, Defense(d), Some(2), NULL)).db : d \in OffenseRolledDBs }

\* ... and the offense taps continue
ReadyDBs == { The(continueAfterRollAction(d, Offense(d), NULL)).db : d \in RollsDoneDBs }

\* The same play with the ref acting on behalf of the sides: from "question"
\* the ref answers for the offense and the defense answers, where the answer
\* of the ref was the one found
RefAnsweredDBs ==
    { The(submitQuestionAnswerAction(d, RefP, TRUE, "offense")).db : d \in QuestionDBs }

RefRollsDBs ==
    { d \in { r.db : r \in UNION { submitQuestionAnswerAction(e, Defense(e), FALSE, NULL) :
                                     e \in RefAnsweredDBs } } :
        d.game.play_subphase = "rolls" }

\* ... the ref rolls for the defense, the offense rolls, and the defense
\* rolls where the roll of the ref was not the one found
RefRolledDBs == { The(submitRollAction(d, RefP, Some(2), "defense")).db : d \in RefRollsDBs }

RefOffenseRolledDBs ==
    { r.db : r \in UNION { submitRollAction(d, Offense(d), Some(3), NULL) : d \in RefRolledDBs } }

RefRollsDoneDBs ==
    { d \in RefOffenseRolledDBs : d.game.play_subphase = "rolls_done" }
    \cup { r.db : r \in UNION { submitRollAction(d, Defense(d), Some(2), NULL) :
                                  d \in { e \in RefOffenseRolledDBs :
                                            e.game.play_subphase = "rolls" } } }

\* ... and the offense taps continue
RefReadyDBs == { The(continueAfterRollAction(d, Offense(d), NULL)).db : d \in RefRollsDoneDBs }

\* the stages whose timeline holds StageLen rows
Stages ==
    { d \in KickoffDBs \cup PlayCallDBs \cup QuestionDBs \cup RollsDBs
              \cup RollsDoneDBs \cup ReadyDBs \cup RefReadyDBs :
        Len(d.game_events) = StageLen }

NoCall == [ op |-> "none", player |-> NULL, ok |-> TRUE, err |-> "", target |-> NULL ]

Idle == [ c \in Callers |-> [ op |-> "idle" ] ]

NoScript == [ c \in {HomeP, AwayP} |-> "off" ]

SetDB(db) ==
    /\ games = db.games
    /\ players = db.players
    /\ game = db.game
    /\ play_calls = db.play_calls
    /\ plays = db.plays
    /\ game_events = db.game_events
    /\ rounds = db.rounds
    /\ round_answers = db.answers
    /\ scores = db.scores
    /\ trivia_game = db.trivia
    /\ created = db.created

\* the server action op, called by player, returns r
Return(op, player, r) ==
    /\ games' = r.db.games
    /\ players' = r.db.players
    /\ game' = r.db.game
    /\ play_calls' = r.db.play_calls
    /\ plays' = r.db.plays
    /\ game_events' = r.db.game_events
    /\ rounds' = r.db.rounds
    /\ round_answers' = r.db.answers
    /\ scores' = r.db.scores
    /\ trivia_game' = r.db.trivia
    /\ created' = r.db.created
    /\ last' = [ op |-> op, player |-> player, ok |-> r.ok, err |-> r.err, target |-> r.target ]

----------------------------------------------------------------------------------------------------------------------------------------
(* Spec: the play cycle, every server action one atomic step *)

Init ==
    /\ \E db \in Stages : SetDB(db)
    /\ last = NoCall
    /\ inflight = Idle
    /\ script = NoScript

Room(n) == Len(game_events) + n <= MaxEvents

StartCoinToss ==
    /\ Room(1)
    /\ \E r \in startCoinToss(DB) : Return("startCoinToss", NULL, r)
    /\ UNCHANGED <<inflight, script>>

ResolveCoinToss ==
    /\ Room(1)
    /\ \E awayCall \in AwayCalls, choice \in TossChoices, coin \in Coins :
         \E r \in resolveCoinTossAction(DB, awayCall, choice, coin) :
           Return("resolveCoinToss", NULL, r)
    /\ UNCHANGED <<inflight, script>>

FlipCoin ==
    /\ Room(1)
    /\ \E p \in Callers, awayCall \in AwayCalls, coin \in Coins :
         \E r \in flipCoinAction(DB, p, awayCall, coin) : Return("flipCoin", p, r)
    /\ UNCHANGED <<inflight, script>>

ChooseTossOption ==
    /\ Room(1)
    /\ \E p \in Callers, choice \in TossChoices :
         \E r \in chooseTossOptionAction(DB, p, choice) : Return("chooseTossOption", p, r)
    /\ UNCHANGED <<inflight, script>>

ResolveKickoffTouchback ==
    /\ Room(1)
    /\ \E r \in resolveKickoffTouchbackAction(DB) : Return("resolveKickoffTouchback", NULL, r)
    /\ UNCHANGED <<inflight, script>>

ResetDrive ==
    /\ Room(1)
    /\ \E p \in Callers, poss \in ResetPossessions, yl \in ResetYardLines :
         \E r \in resetDriveAction(DB, p, poss, yl) : Return("resetDrive", p, r)
    /\ UNCHANGED <<inflight, script>>

SubmitPlayCall ==
    /\ Room(1)
    /\ \E p \in Callers, role \in Roles :
         \E call \in (IF role = "offense" THEN OffenseCalls ELSE DefenseCalls),
            diff \in (IF role = "offense" THEN Difficulties ELSE {"n/a"}) :
           \E r \in submitPlayCallAction(DB, p, role, call, diff) : Return("submitPlayCall", p, r)
    /\ UNCHANGED <<inflight, script>>

SubmitQuestionAnswer ==
    /\ Room(1)
    /\ \E p \in Callers, isCorrect \in BOOLEAN, forSide \in ForSide :
         \E r \in submitQuestionAnswerAction(DB, p, isCorrect, forSide) :
           Return("submitQuestionAnswer", p, r)
    /\ UNCHANGED <<inflight, script>>

SubmitRoll ==
    /\ Room(2)
    /\ \E p \in Callers, m \in ManualRolls, forSide \in ForSide :
         \E r \in submitRollAction(DB, p, m, forSide) : Return("submitRoll", p, r)
    /\ UNCHANGED <<inflight, script>>

ContinueAfterRoll ==
    /\ Room(2)
    /\ game.current_play_seq < MaxSeq
    /\ \E p \in Callers, forSide \in ForSide :
         \E r \in continueAfterRollAction(DB, p, forSide) : Return("continueAfterRoll", p, r)
    /\ UNCHANGED <<inflight, script>>

Next ==
    \/ StartCoinToss
    \/ ResolveCoinToss
    \/ FlipCoin
    \/ ChooseTossOption
    \/ ResolveKickoffTouchback
    \/ ResetDrive
    \/ SubmitPlayCall
    \/ SubmitQuestionAnswer
    \/ SubmitRoll
    \/ ContinueAfterRoll

Spec == Init /\ [][Next]_vars

----------------------------------------------------------------------------
(* LiveSpec: one play, the player of each side sending its play call, its
   answer, its roll and its continue, each again until it is accepted *)

ScriptDone == "done"

NextRequest(pc) ==
    CASE pc = "call" -> "answer" [] pc = "answer" -> "roll" [] pc = "roll" -> "continue"
      [] OTHER -> ScriptDone

\* the role the side of the player holds
RoleOf(db, p) ==
    IF (CHOOSE q \in db.players : q.id = p).side = db.game.offense_side
    THEN "offense" ELSE "defense"

\* the results of the request client p sends next
Request(p) ==
    CASE script[p] = "call" ->
           IF RoleOf(DB, p) = "offense"
           THEN UNION { submitPlayCallAction(DB, p, "offense", c, d) :
                          c \in OffenseCalls, d \in Difficulties }
           ELSE UNION { submitPlayCallAction(DB, p, "defense", c, "n/a") : c \in DefenseCalls }
      [] script[p] = "answer" ->
           UNION { submitQuestionAnswerAction(DB, p, b, NULL) : b \in BOOLEAN }
      [] script[p] = "roll" -> submitRollAction(DB, p, None, NULL)
      [] OTHER -> continueAfterRollAction(DB, p, NULL)

LiveInit ==
    /\ \E db \in PlayCallDBs :
         /\ \A e \in PlayCallDBs : Len(db.game_events) <= Len(e.game_events)
         /\ SetDB(db)
    /\ last = NoCall
    /\ inflight = Idle
    /\ script = [ c \in {HomeP, AwayP} |-> "call" ]

ClientStep(p) ==
    /\ script[p] # ScriptDone
    /\ \E r \in Request(p) :
         /\ Return(script[p], p, r)
         /\ script' = [ script EXCEPT ![p] = IF r.ok THEN NextRequest(@) ELSE @ ]
    /\ UNCHANGED inflight

LiveNext == \E p \in {HomeP, AwayP} : ClientStep(p)

LiveSpec ==
    /\ LiveInit /\ [][LiveNext]_vars
    /\ WF_vars(ClientStep(HomeP)) /\ WF_vars(ClientStep(AwayP))

----------------------------------------------------------------------------
(* LobbySpec: the lobby actions, every server action one atomic step *)

\* display names and codes the requests carry
LobbyNames == { <<"a">>, <<" ", "a">>, <<"b">>, <<" ">> }
NewCodes == { <<"K">> }
JoinCodes == { <<"K">>, <<" ", "k">>, <<"X">>, <<" ">> }

LobbyInit ==
    /\ SetDB(EmptyDB)
    /\ last = NoCall
    /\ inflight = Idle
    /\ script = NoScript

\* ids of the rows there are, and one there is not
SomeGames == { g.id : g \in games } \cup { GameIds[Len(GameIds)] }
SomePlayers == { p.id : p \in players } \cup { GhostP }

CreateLobby ==
    /\ created.games < MaxGames /\ created.players < MaxPlayers
    /\ \E name \in LobbyNames, code \in NewCodes :
         \E r \in createLobbyAction(DB, name, code) : Return("createLobby", NULL, r)
    /\ UNCHANGED <<inflight, script>>

JoinLobby ==
    /\ created.players < MaxPlayers
    /\ \E name \in LobbyNames, code \in JoinCodes :
         \E r \in joinLobbyAction(DB, name, code) : Return("joinLobby", NULL, r)
    /\ UNCHANGED <<inflight, script>>

SetLobbyLocked ==
    /\ \E p \in SomePlayers, g \in SomeGames, locked \in BOOLEAN :
         \E r \in setLobbyLockedAction(DB, p, g, locked) : Return("setLobbyLocked", p, r)
    /\ UNCHANGED <<inflight, script>>

SetReady ==
    /\ \E p \in SomePlayers, g \in SomeGames :
         \E r \in setReadyAction(DB, p, g, TRUE) : Return("setReady", p, r)
    /\ UNCHANGED <<inflight, script>>

StartGame ==
    /\ \E p \in SomePlayers, g \in SomeGames :
         \E r \in startGameAction(DB, g, p) : Return("startGame", p, r)
    /\ UNCHANGED <<inflight, script>>

LeaveLobby ==
    /\ \E p \in SomePlayers, g \in SomeGames :
         \E r \in leaveLobbyAction(DB, p, g) : Return("leaveLobby", p, r)
    /\ UNCHANGED <<inflight, script>>

KickPlayer ==
    /\ \E q \in SomePlayers, p \in SomePlayers, g \in SomeGames :
         \E r \in kickPlayerAction(DB, q, p, g) : Return("kickPlayer", q, r)
    /\ UNCHANGED <<inflight, script>>

LobbyNext ==
    \/ CreateLobby
    \/ JoinLobby
    \/ SetLobbyLocked
    \/ SetReady
    \/ StartGame
    \/ LeaveLobby
    \/ KickPlayer

LobbySpec == LobbyInit /\ [][LobbyNext]_vars

----------------------------------------------------------------------------
(* JoinSpec: joins of one lobby that overlap; a join is two steps, its
   select of the game and its insert of the player *)

Joiners == {"c1", "c2"}

NotJoining == [ op |-> "idle" ]

JoinInit ==
    /\ \E db \in Then({ EmptyDB }, LAMBDA d : createLobbyAction(d, <<"r">>, <<"K">>)) : SetDB(db)
    /\ last = NoCall
    /\ inflight = [ c \in Joiners |-> NotJoining ]
    /\ script = NoScript

\* the join of client c checks its arguments and reads the game
JoinFind(c) ==
    /\ inflight[c] = NotJoining
    /\ created.players < MaxPlayers
    /\ \E name \in LobbyNames, code \in JoinCodes :
         \E f \in joinLobbyFind(DB, name, code) :
           IF f.ok
           THEN /\ inflight' = [ inflight EXCEPT ![c] =
                                   [ op |-> "joinLobby", displayName |-> name, game |-> f.game ] ]
                /\ UNCHANGED <<games, players, game, play_calls, plays, game_events, rounds,
                               round_answers, scores, trivia_game, created, last, script>>
           ELSE /\ Return("joinLobby", c, Fail(DB, f.err))
                /\ UNCHANGED <<inflight, script>>

\* the join of client c inserts the player and returns
JoinInsert(c) ==
    /\ inflight[c] # NotJoining
    /\ \E r \in joinLobbyInsert(DB, inflight[c].displayName, inflight[c].game) :
         Return("joinLobby", c, r)
    /\ inflight' = [ inflight EXCEPT ![c] = NotJoining ]
    /\ UNCHANGED script

JoinNext ==
    \/ \E c \in Joiners : JoinFind(c)
    \/ \E c \in Joiners : JoinInsert(c)
    \/ SetLobbyLocked
    \/ StartGame
    \/ SetReady
    \/ LeaveLobby

JoinSpec == JoinInit /\ [][JoinNext]_vars

----------------------------------------------------------------------------
(* Claims on the game actions, checked under Spec *)

PhaseEdges ==
    { <<"lobby", "coin_toss">>, <<"coin_toss", "coin_toss_choice">>,
      <<"coin_toss_choice", "kickoff">>, <<"kickoff", "drive">>,
      <<"drive", "kickoff">>, <<"drive", "finished">> }

\* C1: every step of a server action leaves the phase as it is or moves it
\* along one edge of lobby -> coin_toss -> coin_toss_choice -> kickoff ->
\* drive -> (kickoff | finished)
C1_PhaseEdges ==
    [][game'.phase = game.phase \/ <<game.phase, game'.phase>> \in PhaseEdges]_vars

PlayOps == {"submitPlayCall", "submitQuestionAnswer", "submitRoll", "continueAfterRoll"}

SubphaseRank(s) ==
    CASE s = "play_call" -> 1 [] s = "question" -> 2 [] s = "rolls" -> 3
      [] s = "rolls_done" -> 4 [] OTHER -> 0

\* C2: a step of one of the four play actions taken in phase drive keeps the
\* subphase or moves it one step forward in play_call -> question -> rolls ->
\* rolls_done while the play sequence stays, and leaves rolls_done only for
\* play_call of the next sequence or for null with phase kickoff
C2_SubphaseForward ==
    [][(game.phase = "drive" /\ SubphaseRank(game.play_subphase) > 0 /\ last'.op \in PlayOps) =>
         IF game'.phase = "drive" /\ game'.current_play_seq = game.current_play_seq
         THEN SubphaseRank(game'.play_subphase) \in
                { SubphaseRank(game.play_subphase), SubphaseRank(game.play_subphase) + 1 }
         ELSE /\ game.play_subphase = "rolls_done"
              /\ game'.current_play_seq = game.current_play_seq + 1
              /\ \/ game'.phase = "drive" /\ game'.play_subphase = "play_call"
                 \/ game'.phase = "kickoff" /\ game'.play_subphase = NULL]_vars

\* C3: play_calls holds at most one row per (player, seq) of the game, and a
\* second submitPlayCallAction with the arguments of the first returns as the
\* first did and leaves the play_calls rows and play_subphase as the first
\* left them
C3_PlayCallIdempotent ==
    /\ \A a, b \in play_calls : (a.player_id = b.player_id /\ a.seq = b.seq) => a = b
    /\ \A p \in Callers, role \in Roles, call \in OffenseCalls \cup DefenseCalls,
          diff \in Difficulties \cup {"n/a"} :
         \A r1 \in submitPlayCallAction(DB, p, role, call, diff) :
           \A r2 \in submitPlayCallAction(r1.db, p, role, call, diff) :
             /\ r2.ok = r1.ok
             /\ r2.db.play_calls = r1.db.play_calls
             /\ r2.db.game.play_subphase = r1.db.game.play_subphase

\* C3 witness: a player's second play call for the sequence was accepted
\* while the other side had not called: two play_call_submitted rows, one
\* play_calls row
C3_Resubmitted ==
    /\ last.op = "submitPlayCall" /\ last.ok
    /\ Len(game_events) >= 2
    /\ game_events[Len(game_events)].type = "play_call_submitted"
    /\ game_events[Len(game_events) - 1].type = "play_call_submitted"
    /\ Cardinality(play_calls) = 1

\* the rows show, for the role, a call, an answer, a roll and the ready mark
Recorded(rows, role) ==
    /\ \E c \in rows : c.role = role /\ c.play_call # NULL
    /\ \E c \in rows : c.role = role /\ ~IsNull(c.answer)
    /\ \E c \in rows : c.role = role /\ ~IsNull(c.roll)
    /\ \E c \in rows : c.role = role /\ c.ready_after_roll

\* C4: when a plays row for sequence s is inserted, the play_calls rows of s
\* show a call, an answer, a roll and the ready mark for the offense and for
\* the defense
C4_ResolvedOnlyWhenRecorded ==
    [][Len(plays') > Len(plays) =>
         LET s == plays'[Len(plays')].seq
             rows == { c \in play_calls' : c.seq = s }
         IN  Recorded(rows, "offense") /\ Recorded(rows, "defense")]_vars

\* C6: submitPlayCallAction succeeds only for a caller whose side is the
\* side that holds the role; for any other caller it returns an error and
\* leaves the play_calls rows and the game row as they were
C6_PlayCallSideChecked ==
    \A p \in Callers, role \in Roles, call \in OffenseCalls \cup DefenseCalls,
       diff \in Difficulties \cup {"n/a"} :
      \A r \in submitPlayCallAction(DB, p, role, call, diff) :
        LET onSide == \E q \in players :
                        /\ q.id = p
                        /\ q.side = (IF role = "offense" THEN game.offense_side
                                     ELSE game.defense_side)
        IN  /\ r.ok => onSide
            /\ ~onSide => /\ ~r.ok /\ r.err # ""
                          /\ r.db.play_calls = play_calls /\ r.db.game = game

\* C6 witness: a play call was refused for the side, and one was accepted
C6_Refused ==
    /\ last.op = "submitPlayCall" /\ ~last.ok
    /\ last.err = "You are not on this side for the current play."
    /\ game.phase = "drive"

\* the role the side of the player holds in game row g
RoleOfPlayer(g, p) ==
    LET side == (CHOOSE q \in players : q.id = p).side
    IN  IF side = g.offense_side THEN "offense"
        ELSE IF side = g.defense_side THEN "defense" ELSE NULL

\* C7: an answer, a roll or a ready mark a player who is not the ref gets
\* accepted is recorded for the role that player's own side holds
C7_OwnRoleOnly ==
    [][(last'.op \in {"submitQuestionAnswer", "submitRoll", "continueAfterRoll"}
          /\ last'.ok /\ last'.player \in {HomeP, AwayP})
         => last'.target = RoleOfPlayer(game, last'.player)]_vars

\* the results of every request on db, without the first n timeline rows
Outcomes(db, n) ==
    LET strip(r) == [ r EXCEPT !.db.game_events = SubSeq(@, n + 1, Len(@)) ]
        all ==
          startCoinToss(db)
          \cup UNION { resolveCoinTossAction(db, a, c, k) :
                         a \in AwayCalls, c \in TossChoices, k \in Coins }
          \cup UNION { flipCoinAction(db, p, a, k) : p \in Callers, a \in AwayCalls, k \in Coins }
          \cup UNION { chooseTossOptionAction(db, p, c) : p \in Callers, c \in TossChoices }
          \cup resolveKickoffTouchbackAction(db)
          \cup UNION { resetDriveAction(db, p, s, y) :
                         p \in Callers, s \in ResetPossessions, y \in ResetYardLines }
          \cup UNION { submitPlayCallAction(db, p, "offense", c, d) :
                         p \in Callers, c \in OffenseCalls, d \in Difficulties }
          \cup UNION { submitPlayCallAction(db, p, "defense", c, "n/a") :
                         p \in Callers, c \in DefenseCalls }
          \cup UNION { submitQuestionAnswerAction(db, p, b, f) :
                         p \in Callers, b \in BOOLEAN, f \in ForSide }
          \cup UNION { submitRollAction(db, p, m, f) :
                         p \in Callers, m \in ManualRolls, f \in ForSide }
          \cup UNION { continueAfterRollAction(db, p, f) : p \in Callers, f \in ForSide }
    IN  { strip(r) : r \in all }

\* C10: logGameEvent adds its row at the end of the timeline and changes
\* nothing else; what the requests return and write does not depend on the
\* rows of the timeline; and every step keeps the rows the timeline had
C10_TimelineAppendOnly ==
    /\ [](logGameEvent(DB, Ev("note")) = [ DB EXCEPT !.game_events = Append(game_events, Ev("note")) ])
    /\ [](Outcomes(DB, Len(game_events)) = Outcomes([ DB EXCEPT !.game_events = <<>> ], 0))
    /\ [][/\ Len(game_events') >= Len(game_events)
          /\ SubSeq(game_events', 1, Len(game_events)) = game_events]_vars

\* C10 witness: continueAfterRollAction logged ready_after_roll and
\* play_resolved after the rows of the stage
C10_Logged ==
    /\ last.op = "continueAfterRoll" /\ last.ok
    /\ Len(game_events) = StageLen + 2
    /\ game_events[Len(game_events)].type = "play_resolved"
    /\ game_events[Len(game_events) - 1].type = "ready_after_roll"

----------------------------------------------------------------------------
(* Claim on one play of two players, checked under LiveSpec *)

\* C5: from drive/play_call of sequence 1, with the player of each side
\* sending its play call, answer, roll and continue until each is accepted,
\* the play is eventually resolved: the sequence is 2 and the game is in
\* drive/play_call or in phase kickoff
C5_PlayResolved ==
    (/\ script = [ c \in {HomeP, AwayP} |-> "call" ]
     /\ game.phase = "drive" /\ game.play_subphase = "play_call"
     /\ game.current_play_seq = 1)
    ~> (/\ game.current_play_seq = 2
        /\ \/ game.phase = "drive" /\ game.play_subphase = "play_call"
           \/ game.phase = "kickoff")

\* C5 witness: both players had their four requests accepted and the play
\* of sequence 1 is in plays
C5_BothDone ==
    /\ \A c \in {HomeP, AwayP} : script[c] = ScriptDone
    /\ Len(plays) = 1 /\ plays[1].seq = 1
    /\ game.current_play_seq = 2

----------------------------------------------------------------------------
(* Claims on the lobby, checked under JoinSpec and LobbySpec *)

UniqueNames(rows) ==
    \A p, q \in rows : (p.game_id = q.game_id /\ p.display_name = q.display_name) => p = q

\* C8: no two players of a game have the same display name; the insert of a
\* join whose trimmed name a player of the game has, whatever other joins
\* ran since the join read the game, fails with 'Name already taken in this
\* lobby.' and adds no row; createLobbyAction leaves the names unique
C8_UniqueDisplayNames ==
    /\ UniqueNames(players)
    /\ \A c \in Joiners :
         inflight[c] # NotJoining =>
           \A r \in joinLobbyInsert(DB, inflight[c].displayName, inflight[c].game) :
             IF \E p \in players : /\ p.game_id = inflight[c].game.id
                                   /\ p.display_name = Trim(inflight[c].displayName)
             THEN ~r.ok /\ r.err = "Name already taken in this lobby." /\ r.db.players = players
             ELSE r.ok /\ UniqueNames(r.db.players)
    /\ \A name \in LobbyNames, code \in { <<"K">>, <<"M">> } :
         \A r \in createLobbyAction(DB, name, code) : UniqueNames(r.db.players)

\* C8 witness: a join was accepted while another join with the same trimmed
\* name, for the same game, was between its read and its insert
C8_Overlapped ==
    \E c \in Joiners :
      /\ inflight[c] # NotJoining
      /\ last.op = "joinLobby" /\ last.ok /\ last.player # c
      /\ \E p \in players : /\ p.id = last.target
                            /\ p.game_id = inflight[c].game.id
                            /\ p.display_name = Trim(inflight[c].displayName)

\* C9: joinLobbyAction adds a player, one row of the game, only when the
\* trimmed upper-cased code is the code of a game that is lobby_open and
\* not locked; otherwise it returns an error and leaves players as it was;
\* with a blank name or a blank code it returns what it returns on empty
\* tables
C9_JoinOnlyOpenLobby ==
    \A name \in LobbyNames, code \in JoinCodes :
      \A r \in joinLobbyAction(DB, name, code) :
        LET open == { g \in games : /\ g.code = ToUpperCase(Trim(code))
                                    /\ g.status = "lobby_open" /\ ~g.lobby_locked }
        IN  /\ r.ok => /\ open # {}
                       /\ Cardinality(r.db.players \ players) = 1
                       /\ \A row \in r.db.players \ players :
                            \E g \in open : row.game_id = g.id
            /\ open = {} => ~r.ok /\ r.err # "" /\ r.db = DB
            /\ (Trim(name) = <<>> \/ Trim(code) = <<>>) =>
                 /\ ~r.ok /\ r.db = DB
                 /\ \E e \in joinLobbyAction(EmptyDB, name, code) : e.err = r.err

\* C9 witness: a join was refused for the lock of a lobby that is open
C9_LockedRefused ==
    /\ last.op = "joinLobby" /\ ~last.ok /\ last.err = "Lobby is locked."
    /\ \E g \in games : g.status = "lobby_open" /\ g.lobby_locked

----------------------------------------------------------------------------
(* DriveSpec: the resolution of a play of a drive.  The initial states are
   the states in which the last continue of a play is due, after up to
   DrivePlays earlier plays of the drive; the steps are the continue that
   resolves the play and the touchback of the kickoff after a touchdown *)

DrivePlays == 3

\* where the ref puts the ball for the drive: opts.yardLine is any number, and
\* resetDriveAction writes it as it comes
DriveYardLines == {3, 50, 97, 130}

\* the yards of the earlier plays of the drives looked at
PriorYards == {-2, 4}

\* the inputs of the play that is resolved: <<offense call, difficulty>>,
\* the defense call, the answers and the rolls the clients send
LastOffenseCalls ==
    { <<"Run", "easy">>, <<"Pass", "hard">>, <<"Hail Mary", "hail_mary">>, <<"Trick", "medium">> }
LastDefenseCalls == {"Pass D", "Blitz", "Run stop"}
LastOffenseRolls == {1, 17}
LastDefenseRolls == {4}

\* the kickoff after the first coin toss
FirstKickoffDBs ==
    { d \in KickoffDBs : \A e \in KickoffDBs : Len(d.game_events) <= Len(e.game_events) }

\* ... a touchback, or the ref puts the ball on a yard line
DriveStartDBs ==
    { The(resolveKickoffTouchbackAction(d)).db : d \in FirstKickoffDBs }
    \cup { The(resetDriveAction(d, RefP, NULL, Some(yl))).db :
             d \in FirstKickoffDBs, yl \in DriveYardLines }

\* the kickoff after a touchdown is a touchback
Snapped(dbs) ==
    { IF d.game.phase = "kickoff" THEN The(resolveKickoffTouchbackAction(d)).db ELSE d : d \in dbs }

\* the players of both sides call, answer and roll
RolledWith(dbs, offenseCall, difficulty, defenseCall, oc, dc, dieOffense, dieDefense) ==
    LET called ==
          { The(submitPlayCallAction(d, Offense(d), "offense", offenseCall, difficulty)).db :
              d \in dbs }
        question ==
          { The(submitPlayCallAction(d, Defense(d), "defense", defenseCall, "n/a")).db :
              d \in called }
        answered ==
          { The(submitQuestionAnswerAction(d, Offense(d), oc, NULL)).db : d \in question }
        rolls ==
          { The(submitQuestionAnswerAction(d, Defense(d), dc, NULL)).db : d \in answered }
        rolled ==
          { The(submitRollAction(d, Offense(d), Some(dieOffense), NULL)).db : d \in rolls }
        done ==
          { The(submitRollAction(d, Defense(d), Some(dieDefense), NULL)).db : d \in rolled }
    IN  done

\* ... and the offense taps continue
ReadyWith(dbs, offenseCall, difficulty, defenseCall, oc, dc, dieOffense, dieDefense) ==
    { The(continueAfterRollAction(d, Offense(d), NULL)).db :
        d \in RolledWith(dbs, offenseCall, difficulty, defenseCall, oc, dc,
                         dieOffense, dieDefense) }

\* the states after n plays of the drive: a run against a run stop, the
\* offense right or wrong, gaining one of PriorYards
RECURSIVE DrivePlayDBs(_)
DrivePlayDBs(n) ==
    IF n = 0 THEN DriveStartDBs
    ELSE { d \in { r.db : r \in UNION { continueAfterRollAction(e, Defense(e), NULL) :
                              e \in UNION { ReadyWith(Snapped(DrivePlayDBs(n - 1)), "Run", "easy",
                                                      "Run stop", oc, FALSE, 3, 2)
                                            : oc \in BOOLEAN } } } :
             d.plays[Len(d.plays)].yards \in PriorYards }

\* ... and the next play up to its last continue
DriveStages(plays_before) ==
    UNION { ReadyWith(Snapped(UNION { DrivePlayDBs(n) : n \in 0..plays_before }),
                      oc[1], oc[2], dcall, a, b, dO, dD)
            : oc \in LastOffenseCalls, dcall \in LastDefenseCalls, a \in BOOLEAN, b \in BOOLEAN,
              dO \in LastOffenseRolls, dD \in LastDefenseRolls }

DriveInit ==
    /\ \E db \in DriveStages(DrivePlays) : SetDB(db)
    /\ last = NoCall
    /\ inflight = Idle
    /\ script = NoScript

\* the continue that is due, by either player
DriveContinue ==
    /\ last = NoCall
    /\ \E p \in {HomeP, AwayP} :
         \E r \in continueAfterRollAction(DB, p, NULL) : Return("continueAfterRoll", p, r)
    /\ UNCHANGED <<inflight, script>>

DriveTouchback ==
    /\ \E r \in resolveKickoffTouchbackAction(DB) : Return("resolveKickoffTouchback", NULL, r)
    /\ UNCHANGED <<inflight, script>>

DriveNext == DriveContinue \/ DriveTouchback

DriveSpec == DriveInit /\ [][DriveNext]_vars

----------------------------------------------------------------------------
(* Claims on the resolution of a play, checked under DriveSpec *)

\* the play_resolved rows of the timeline: the n-th belongs to the n-th plays row
PlayEvents == SelectSeq(game_events, LAMBDA e : e.type = "play_resolved")

\* the n-th play neither scored nor was a turnover on downs
Plain(n) == ~plays[n].turnover /\ ~PlayEvents[n].touchdown

\* offense and defense when the play after the n-th is resolved, or now
SidesAfter(n) ==
    IF n < Len(plays)
    THEN <<plays[n + 1].offense_side, plays[n + 1].defense_side>>
    ELSE <<game.offense_side, game.defense_side>>

\* C11: after a resolved play that neither scored a touchdown nor was a
\* turnover on downs, offense_side, defense_side and possession_side are the
\* ones of that play, up to and including the next resolved play; so the
\* offense changes between two consecutive plays only after a touchdown or a
\* turnover
C11_OffenseKeepsBall ==
    \A n \in 1..Len(plays) :
        Plain(n) =>
          /\ SidesAfter(n) = <<plays[n].offense_side, plays[n].defense_side>>
          /\ n = Len(plays) => game.possession_side = plays[n].offense_side

\* C11 witness: a second play of the drive was resolved, plain, after a plain
\* first play
C11_SecondPlayPlain ==
    /\ last.op = "continueAfterRoll" /\ last.ok
    /\ Len(plays) >= 2
    /\ Plain(Len(plays)) /\ Plain(Len(plays) - 1)
    /\ game.offense_side = plays[1].offense_side

\* the step of finalizePlayResolution that resolves a play
PlayResolved == Len(plays') = Len(plays) + 1

\* the plays row and the play_resolved event that step writes
NewPlay == plays'[Len(plays')]
NewPlayEvent == game_events'[Len(game_events')]

\* the yard line the play ends on, from the yards the plays row reports
Spot == game.yard_line + (IF game.offense_side = "home" THEN NewPlay.yards ELSE -NewPlay.yards)

\* the offense reaches the goal line it attacks
ReachesGoal ==
    \/ game.offense_side = "home" /\ Spot >= 100
    \/ game.offense_side = "away" /\ Spot <= 0

ScoreOf(g, side) == IF side = "home" THEN g.score_home ELSE g.score_away

\* C16: a play scores a touchdown exactly when the home offense ends on yard
\* line 100 or the away offense on yard line 0; then the score of the offense
\* rises by 7 and the other score stays, the phase is kickoff with no
\* subphase, the other side is offense and has possession, and the ball is at
\* 1st and 10 on yard line 25; no other play changes a score
C16_Touchdown ==
    [][ PlayResolved =>
          IF ReachesGoal
          THEN /\ ScoreOf(game', game.offense_side) = ScoreOf(game, game.offense_side) + 7
               /\ ScoreOf(game', game.defense_side) = ScoreOf(game, game.defense_side)
               /\ game'.phase = "kickoff" /\ game'.play_subphase = NULL
               /\ game'.offense_side = Other(game.offense_side)
               /\ game'.possession_side = Other(game.offense_side)
               /\ game'.defense_side = game.offense_side
               /\ game'.down = 1 /\ game'.distance = 10 /\ game'.yard_line = 25
               /\ NewPlayEvent.touchdown
          ELSE /\ game'.score_home = game.score_home
               /\ game'.score_away = game.score_away
               /\ game'.phase = game.phase
               /\ ~NewPlayEvent.touchdown ]_vars

\* C16 witness: the away offense scored on yard line 0
C16_AwayScored ==
    /\ last.op = "continueAfterRoll" /\ last.ok
    /\ Len(plays) >= 1
    /\ plays[Len(plays)].offense_side = "away"
    /\ PlayEvents[Len(plays)].touchdown
    /\ game.score_away = 7 /\ game.phase = "kickoff" /\ game.offense_side = "home"

\* C17: a play that is no touchdown and gains the distance or more gives 1st
\* and 10; one that gains less gives the next down with the distance less the
\* gain; and when that down would be the 5th, the sides swap, the former
\* defense has possession at 1st and 10, and the ball stays on the new spot
C17_DownAndDistance ==
    [][ PlayResolved /\ ~ReachesGoal =>
          IF NewPlay.yards >= game.distance
          THEN /\ game'.down = 1 /\ game'.distance = 10
               /\ game'.offense_side = game.offense_side
               /\ game'.defense_side = game.defense_side
          ELSE IF game.down + 1 <= 4
          THEN /\ game'.down = game.down + 1
               /\ game'.distance = game.distance - NewPlay.yards
               /\ game'.offense_side = game.offense_side
               /\ game'.defense_side = game.defense_side
          ELSE /\ game'.offense_side = game.defense_side
               /\ game'.defense_side = game.offense_side
               /\ game'.possession_side = game.defense_side
               /\ game'.down = 1 /\ game'.distance = 10
               /\ game'.yard_line = Spot ]_vars

\* C17 witness: a 4th-down play short of the distance turned the ball over
C17_TurnedOver ==
    /\ last.op = "continueAfterRoll" /\ last.ok
    /\ Len(plays) >= 4
    /\ plays[Len(plays)].turnover /\ ~PlayEvents[Len(plays)].touchdown
    /\ game.offense_side = plays[Len(plays)].defense_side
    /\ game.down = 1 /\ game.distance = 10

\* C18: after a play is resolved the ball is on the field, on a down from 1st
\* to 4th, with at least a yard to go
C18_FieldBounds ==
    [][ PlayResolved =>
          /\ game'.yard_line \in 0..100
          /\ game'.down \in 1..4
          /\ game'.distance >= 1 ]_vars

\* C18 witness: a play was stopped at a goal line by the clamp of the field
C18_Clamped ==
    /\ last.op = "continueAfterRoll" /\ last.ok
    /\ Len(plays) >= 1
    /\ ~PlayEvents[Len(plays)].touchdown
    /\ game.yard_line \in {0, 100}

\* C19: a play that scores is not recorded as a turnover: its plays row and
\* its play_resolved event have turnover false and the result text is not
\* "Turnover on downs"
C19_NoTurnoverOnTouchdown ==
    [][ PlayResolved /\ ScoreOf(game', game.offense_side) = ScoreOf(game, game.offense_side) + 7 =>
          /\ ~NewPlay.turnover
          /\ ~NewPlayEvent.turnover
          /\ NewPlay.result_text # <<"Turnover on downs">> ]_vars

\* the spot of the ball after the play, before the reset a touchdown makes
SpotAfterPlay ==
    IF NewPlayEvent.touchdown
    THEN (IF game.offense_side = "home" THEN 100 ELSE 0)
    ELSE game'.yard_line

\* C25: the yards of the plays row and of the play_resolved event are the
\* yards the ball moved in the direction of the offense, from the spot before
\* the play to the spot after it, and lie within -20..60
C25_YardsAsPlayed ==
    [][ PlayResolved =>
          /\ NewPlayEvent.yards = NewPlay.yards
          /\ NewPlay.yards = (IF game.offense_side = "home"
                              THEN SpotAfterPlay - game.yard_line
                              ELSE game.yard_line - SpotAfterPlay)
          /\ NewPlay.yards \in -20..60 ]_vars

\* the yards between the ball and the goal line at which the offense scores
YardsToGoal(g) == IF g.offense_side = "home" THEN 100 - g.yard_line ELSE g.yard_line

\* C20: after a kickoff touchback, and after the reset that follows a
\* touchdown, the offense is 75 yards from the goal line at which it scores
C20_TouchbackAlike ==
    [][ \/ last'.op = "resolveKickoffTouchback" /\ last'.ok
        \/ PlayResolved /\ NewPlayEvent.touchdown
        => YardsToGoal(game') = 75 ]_vars

----------------------------------------------------------------------------
(* Claims on the answers of a play, checked under Spec *)

\* a row of the sequence has an answer for the role
Answered(rows, seq, role) ==
    \E c \in rows : c.seq = seq /\ c.role = role /\ ~IsNull(c.answer)

\* C15: an accepted submitQuestionAnswerAction leaves play_subphase at rolls
\* when the play calls of the current sequence hold an answer for the offense
\* and one for the defense, whoever recorded them, and at question while one
\* of the two is missing
C15_RollsWhenBothAnswered ==
    [][ last'.op = "submitQuestionAnswer" /\ last'.ok /\ game.play_subphase = "question" =>
          game'.play_subphase =
            (IF /\ Answered(play_calls', game.current_play_seq, "offense")
                /\ Answered(play_calls', game.current_play_seq, "defense")
             THEN "rolls" ELSE "question") ]_vars

\* the rolls the rows of the sequence hold for the role
RollsOf(rows, seq, role) ==
    { c.roll : c \in { r \in rows : r.seq = seq /\ r.role = role /\ ~IsNull(r.roll) } }

\* C21: a roll is recorded once for a role of a sequence: submitRollAction is
\* not accepted for a role whose roll is stored, and a submitRollAction leaves
\* the rolls stored for either role of the sequence as they were
C21_RollOnce ==
    [][ last'.op = "submitRoll" /\ game.play_subphase = "rolls" =>
          /\ last'.ok => RollsOf(play_calls, game.current_play_seq, last'.target) = {}
          /\ \A role \in {"offense", "defense"} :
                RollsOf(play_calls, game.current_play_seq, role) # {} =>
                  RollsOf(play_calls', game.current_play_seq, role)
                    = RollsOf(play_calls, game.current_play_seq, role) ]_vars

\* the request of the step is made outside the phase and subphase it needs
OutOfSubphase(op) ==
    CASE op = "submitQuestionAnswer" ->
           ~(game.phase = "drive" /\ game.play_subphase = "question")
      [] op = "submitRoll" -> ~(game.phase = "drive" /\ game.play_subphase = "rolls")
      [] op = "continueAfterRoll" ->
           ~(game.phase = "drive" /\ game.play_subphase = "rolls_done")
      [] op = "submitPlayCall" -> game.phase # "drive"
      [] OTHER -> FALSE

\* C22: an answer outside drive/question, a roll outside drive/rolls, a
\* continue outside drive/rolls_done and a play call outside phase drive are
\* refused, and the game row, the play calls and the timeline stay as they
\* were
C22_RefusedOutsideSubphase ==
    [][ OutOfSubphase(last'.op) =>
          /\ ~last'.ok
          /\ game' = game
          /\ play_calls' = play_calls
          /\ plays' = plays
          /\ game_events' = game_events ]_vars

\* C22 witness: a roll was refused while the answers were still collected
C22_RollRefused ==
    /\ last.op = "submitRoll" /\ ~last.ok
    /\ last.err = "Not accepting rolls right now."
    /\ game.phase = "drive" /\ game.play_subphase = "question"

\* C24: a resolved play advances current_play_seq by one, and right after the
\* resolution no play_calls row belongs to the new current sequence
C24_CleanNextSequence ==
    [][ PlayResolved =>
          /\ game'.current_play_seq = game.current_play_seq + 1
          /\ \A c \in play_calls' : c.seq # game'.current_play_seq ]_vars

\* C24 witness: a play was resolved, the rows of its sequence are still
\* there and none belongs to the sequence that is current now
C24_NextSequenceEmpty ==
    /\ last.op = "continueAfterRoll" /\ last.ok
    /\ Len(plays) >= 1
    /\ game.current_play_seq = plays[Len(plays)].seq + 1
    /\ \E c \in play_calls : c.seq = plays[Len(plays)].seq
    /\ \A c \in play_calls : c.seq # game.current_play_seq

----------------------------------------------------------------------------
(* GuardSpec: the play cycle, also from the games rows of a drive whose
   play_subphase holds no value: the column is nullable and has no default,
   and the guard of submitPlayCallAction names the case *)

SubphaseUnset(db) == UpdateGame(db, [ play_subphase |-> NULL ])

GuardStages ==
    Stages \cup { SubphaseUnset(d) :
                    d \in { s \in Stages : /\ s.game.phase = "drive"
                                          /\ s.game.play_subphase = "play_call" } }

GuardInit ==
    /\ \E db \in GuardStages : SetDB(db)
    /\ last = NoCall
    /\ inflight = Idle
    /\ script = NoScript

GuardSpec == GuardInit /\ [][Next]_vars

----------------------------------------------------------------------------
(* RaceSpec: the continues of the two players of a play overlap.  Each await
   of continueAfterRollAction is a step of its request; finalizePlayResolution
   is two steps, the select of the game and the rest *)

Racers == {HomeP, AwayP}

\* the request of client c is at the await named op
At(c, op) == inflight[c].op = op

\* yard lines from which the play of the race reaches the goal line or stops
\* short of it, as the matchup modifier falls
RaceYardLines == {91, 9}

\* the plays of the stages with their rolls done, and a run against a pass
\* defense after the ref put the ball near a goal line
RaceInit ==
    /\ \E db \in RollsDoneDBs \cup RefRollsDoneDBs
                \cup RolledWith({ The(resetDriveAction(d, RefP, NULL, Some(yl))).db :
                                    d \in FirstKickoffDBs, yl \in RaceYardLines },
                                "Run", "easy", "Pass D", TRUE, FALSE, 3, 2) : SetDB(db)
    /\ last = NoCall
    /\ inflight = Idle
    /\ script = [ c \in Racers |-> "continue" ]

\* the selects of the game and of the player, and the guards on them
ContinueSelect(c) ==
    /\ At(c, "idle") /\ script[c] = "continue"
    /\ LET ps == SelectPlayer(DB, c)
       IN  IF game.phase # "drive" \/ game.play_subphase # "rolls_done"
           THEN /\ Return("continueAfterRoll", c, Fail(DB, "Not ready to resolve yet."))
                /\ script' = [ script EXCEPT ![c] = ScriptDone ]
                /\ UNCHANGED inflight
           ELSE IF ps = {}
           THEN /\ Return("continueAfterRoll", c, Fail(DB, "Player not found."))
                /\ script' = [ script EXCEPT ![c] = ScriptDone ]
                /\ UNCHANGED inflight
           ELSE /\ inflight' = [ inflight EXCEPT ![c] =
                                   [ op |-> "update", seq |-> game.current_play_seq,
                                     targetRole |-> TargetRole(game, CHOOSE p \in ps : TRUE, NULL) ] ]
                /\ UNCHANGED <<games, players, game, play_calls, plays, game_events, rounds,
                               round_answers, scores, trivia_game, created, last, script>>

\* .update({ ready_after_roll: true }).eq("seq", seq).eq("role", targetRole)
ContinueUpdate(c) ==
    /\ At(c, "update")
    /\ play_calls' = { IF r.seq = inflight[c].seq /\ r.role = inflight[c].targetRole
                       THEN [ r EXCEPT !.ready_after_roll = TRUE ] ELSE r : r \in play_calls }
    /\ inflight' = [ inflight EXCEPT ![c].op = "readiness" ]
    /\ UNCHANGED <<games, players, game, plays, game_events, rounds, round_answers, scores,
                   trivia_game, created, last, script>>

\* the select of the readiness and the ready_after_roll event
ContinueReadiness(c) ==
    /\ At(c, "readiness")
    /\ LET readiness == CallsOfSeq(DB, inflight[c].seq)
           offenseReady == \E r \in readiness : r.role = "offense" /\ r.ready_after_roll
           defenseReady == \E r \in readiness : r.role = "defense" /\ r.ready_after_roll
           db2 == logGameEvent(DB, EvSeq("ready_after_roll", inflight[c].seq))
       IN  IF offenseReady /\ defenseReady
           THEN /\ game_events' = db2.game_events
                /\ inflight' = [ inflight EXCEPT ![c].op = "finalize" ]
                /\ UNCHANGED <<games, players, game, play_calls, plays, rounds, round_answers,
                               scores, trivia_game, created, last, script>>
           ELSE /\ Return("continueAfterRoll", c, Ok(db2, inflight[c].targetRole))
                /\ inflight' = [ inflight EXCEPT ![c] = Idle[c] ]
                /\ script' = [ script EXCEPT ![c] = ScriptDone ]

\* finalizePlayResolution(gameId, seq): the select of the game
FinalizeSelect(c) ==
    /\ At(c, "finalize")
    /\ inflight' = [ inflight EXCEPT ![c] =
                       [ op |-> "resolve", seq |-> @.seq, targetRole |-> @.targetRole,
                         game |-> game ] ]
    /\ UNCHANGED <<games, players, game, play_calls, plays, game_events, rounds, round_answers,
                   scores, trivia_game, created, last, script>>

\* ... and the rest of it: the play is resolved from the game row that was
\* selected, and the update writes its columns over the row as it is now (no
\* other column changes while the continues run)
FinalizeResolve(c) ==
    /\ At(c, "resolve")
    /\ \E r \in finalizePlayResolution([ DB EXCEPT !.game = inflight[c].game ],
                                        inflight[c].seq, inflight[c].targetRole) :
         Return("continueAfterRoll", c, r)
    /\ inflight' = [ inflight EXCEPT ![c] = Idle[c] ]
    /\ script' = [ script EXCEPT ![c] = ScriptDone ]

RaceNext ==
    \E c \in Racers :
        \/ ContinueSelect(c)
        \/ ContinueUpdate(c)
        \/ ContinueReadiness(c)
        \/ FinalizeSelect(c)
        \/ FinalizeResolve(c)

RaceSpec == RaceInit /\ [][RaceNext]_vars

\* the sequences that have a plays row
ResolvedSeqs == { plays[i].seq : i \in 1..Len(plays) }

\* C14: with the continues of the two sides overlapping and no reset of the
\* drive, a sequence has at most one plays row and current_play_seq has
\* grown by one for each resolved sequence of the drive, which starts at 1
C14_ResolvedOnce ==
    /\ \A i, j \in 1..Len(plays) : plays[i].seq = plays[j].seq => i = j
    /\ game.current_play_seq = 1 + Cardinality(ResolvedSeqs)

C27_SidesConsistent ==
    game.offense_side # NULL =>
      /\ game.offense_side \in Sides
      /\ game.defense_side = Other(game.offense_side)
      /\ game.possession_side = game.offense_side

\* C27 witness: a resolved play handed the ball to the side that defended it
C27_BallHandedOver ==
    /\ last.op = "continueAfterRoll" /\ last.ok
    /\ Len(plays) >= 1
    /\ game.offense_side = plays[Len(plays)].defense_side
    /\ game.defense_side = plays[Len(plays)].offense_side
    /\ game.possession_side = game.offense_side

\* the players row of the caller of the step, if there is one
CallerRows == { q \in players : q.id = last'.player }

\* C28: chooseTossOptionAction succeeds only with a toss winner recorded and
\* for the ref or a player of the winning side; then the winner has
\* possession for "receive" and the other side for "kick" and "defer",
\* second_half_kickoff_side is the winner for "defer" and the other side
\* otherwise, and the game is in kickoff at 1st and 10 on yard line 25 with
\* no subphase; a refused call leaves the game row as it was
C28_TossOption ==
    [][ last'.op = "chooseTossOption" =>
          IF last'.ok
          THEN /\ game.toss_winner_side \in Sides
               /\ \E q \in CallerRows : q.role = "ref" \/ q.side = game.toss_winner_side
               /\ game'.toss_choice \in TossChoices
               /\ game'.possession_side =
                    (IF game'.toss_choice = "receive" THEN game.toss_winner_side
                     ELSE Other(game.toss_winner_side))
               /\ game'.second_half_kickoff_side =
                    (IF game'.toss_choice = "defer" THEN game.toss_winner_side
                     ELSE Other(game.toss_winner_side))
               /\ game'.phase = "kickoff" /\ game'.play_subphase = NULL
               /\ game'.down = 1 /\ game'.distance = 10 /\ game'.yard_line = 25
          ELSE game' = game ]_vars

\* C28 witness: the winner deferred, so the other side receives and the
\* winner has the second half kickoff
C28_Deferred ==
    /\ last.op = "chooseTossOption" /\ last.ok
    /\ game.toss_choice = "defer"
    /\ game.second_half_kickoff_side = game.toss_winner_side
    /\ game.possession_side = Other(game.toss_winner_side)
    /\ game.phase = "kickoff"

----------------------------------------------------------------------------
(* The trivia actions (src/unnamed/part_003) *)

MaxRounds == 2
MaxTriviaEvents == 3

\* table questions: the rows the rounds refer to
Questions ==
    { [ id |-> "q1", correct_index |-> 0, difficulty |-> "easy" ],
      [ id |-> "q2", correct_index |-> 1, difficulty |-> "hard" ] }

QuestionIds == { q.id : q \in Questions }

\* the id of the round of a seq: rounds are unique per (game_id, seq) and
\* none of these actions deletes a round, so the round inserted for seq n is
\* named RoundIds[n]; the last id is the one of no round
RoundIds == <<"r1", "r2", "r3", "r4">>

RoundRow(game_id, seq, question_id, status) ==
    [ id |-> RoundIds[seq], game_id |-> game_id, seq |-> seq, question_id |-> question_id,
      status |-> status, block |-> 1 ]

AnswerRow(round_id, game_id, player_id, choice_index, ready_next) ==
    [ round_id |-> round_id, game_id |-> game_id, player_id |-> player_id,
      choice_index |-> choice_index, correct |-> None, points |-> 0, ready_next |-> ready_next ]

\* .from("games").select(..).eq("id", gameId)
SelectGame(db, gameId) == { g \in db.games : g.id = gameId }

\* an insert of answers that knows no unique (round_id, player_id)
InsertAnswer(rows, new, cols) == rows \cup { new }

\* .from("answers").upsert(new, { onConflict: "round_id,player_id" }): the row
\* of the round and the player gets the columns cols of new, or new is inserted
UpsertAnswer(rows, new, cols) ==
    LET same(a) == a.round_id = new.round_id /\ a.player_id = new.player_id
    IN  IF \E a \in rows : same(a)
        THEN { IF same(a) THEN [ c \in DOMAIN a |-> IF c \in cols THEN new[c] ELSE a[c] ] ELSE a
               : a \in rows }
        ELSE rows \cup { new }

\* the foreign keys of an answers row: its round, its game and its player exist
AnswerKeysExist(db, roundId, gameId, playerId) ==
    /\ \E r \in db.rounds : r.id = roundId
    /\ \E g \in db.games : g.id = gameId
    /\ \E q \in db.players : q.id = playerId

ForeignKeyError == "violates foreign key constraint"

\* an upsert that overwrites no round: it inserts, or leaves the round alone
UpsertRoundKeeping(db, gameId, seq, questionId) ==
    IF \E r \in db.rounds : r.game_id = gameId /\ r.seq = seq THEN db.rounds
    ELSE db.rounds \cup { RoundRow(gameId, seq, questionId, "live") }

\* .from("rounds").upsert({ .., status: "live" }, { onConflict: "game_id,seq" })
UpsertRound(db, gameId, seq, questionId) ==
    IF \E r \in db.rounds : r.game_id = gameId /\ r.seq = seq
    THEN { IF r.game_id = gameId /\ r.seq = seq
           THEN [ r EXCEPT !.question_id = questionId, !.status = "live" ] ELSE r
           : r \in db.rounds }
    ELSE db.rounds \cup { RoundRow(gameId, seq, questionId, "live") }

startTriviaRound(db, gameId, hostId, questionId, seq) ==
    LET gs == SelectGame(db, gameId)
        g == CHOOSE x \in gs : TRUE
    IN  IF gs = {} THEN { Fail(db, "Game not found.") }
        ELSE IF g.mode # "trivia" THEN { Fail(db, "Not a trivia game.") }
        ELSE IF g.host_player_id # NULL /\ g.host_player_id # hostId THEN { Fail(db, "Only host can start rounds.") }
        ELSE IF questionId \notin QuestionIds THEN { Fail(db, ForeignKeyError) }
        ELSE { Ok(logGameEvent([ db EXCEPT !.rounds = UpsertRound(db, gameId, seq, questionId) ],
                               EvSeq("trivia_round_started", seq)), NULL) }

\* the players of the game that are not the ref
NonRefPlayers(db, gameId) == { q \in db.players : q.game_id = gameId /\ q.role # "ref" }

\* the rpc increment_player_score and increment_player_counts
IncrementPlayer(sc, playerId, points, correct) ==
    IF playerId \in DOMAIN sc
    THEN [ sc EXCEPT ![playerId] =
             [ score |-> @.score + points,
               correct_count |-> @.correct_count + (IF correct THEN 1 ELSE 0),
               incorrect_count |-> @.incorrect_count + (IF correct THEN 0 ELSE 1) ] ]
    ELSE sc

\* the answers and the scores after the loop over the answers of the round
RECURSIVE ScoreAnswers(_, _, _, _)
ScoreAnswers(db, todo, question, basePoints) ==
    IF todo = {} THEN db
    ELSE LET a == CHOOSE x \in todo : TRUE
             correctFlag == a.choice_index = Some(question.correct_index)
             points == IF correctFlag THEN basePoints ELSE 0
             db1 == [ db EXCEPT
                        !.answers = { IF x = a THEN [ x EXCEPT !.correct = Some(correctFlag),
                                                             !.points = points ] ELSE x
                                      : x \in @ },
                        !.scores = IncrementPlayer(@, a.player_id, points, correctFlag) ]
         IN  ScoreAnswers(db1, todo \ { a }, question, basePoints)

\* the winner and next picker logic at the end of lockAndScoreRound
TriviaWinner(db, round, gameId) ==
    LET playerScores == NonRefPlayers(db, gameId)
        score(q) == db.scores[q.id].score
        winners == { q \in playerScores : score(q) >= db.trivia.target_score }
        completed(d, w) ==
            [ d EXCEPT !.games = { IF g.id = gameId THEN [ g EXCEPT !.status = "completed" ] ELSE g
                                   : g \in @ },
                       !.trivia.winner_player_id = w ]
        revealedInBlock ==
            Cardinality({ r \in db.rounds : r.game_id = gameId /\ r.block = round.block
                                            /\ r.status = "revealed" })
        topPlayers == { q \in playerScores : \A o \in playerScores : score(o) <= score(q) }
    IN  IF SelectGame(db, gameId) = {} THEN { db }
        ELSE IF winners # {}
        THEN { logGameEvent(completed(db, w.id), Ev("trivia_completed")) : w \in winners }
        ELSE IF revealedInBlock >= 20
        THEN { logGameEvent(logGameEvent(completed(db, w), Ev("trivia_block_completed")),
                            Ev("trivia_completed"))
               : w \in IF topPlayers = {} THEN { NULL } ELSE { q.id : q \in topPlayers } }
        ELSE { db }

lockAndScoreRound(db, roundId, gameId) ==
    LET rs == { r \in db.rounds : r.id = roundId }
        round == CHOOSE r \in rs : TRUE
        qs == { q \in Questions : q.id = round.question_id }
        question == CHOOSE q \in qs : TRUE
        basePoints == IF question.difficulty = "hard" THEN 300
                      ELSE IF question.difficulty = "easy" THEN 100 ELSE 200
        unscored == { a \in db.answers : a.round_id = roundId /\ IsNull(a.correct) }
    IN  IF rs = {} THEN { Fail(db, "Round not found.") }
        ELSE IF qs = {} THEN { Fail(db, "Question missing.") }
        ELSE { Ok(e, NULL) :
                 e \in UNION { TriviaWinner(d, round, gameId) :
                   d \in { logGameEvent(
                             [ s1 EXCEPT !.rounds = { IF r.id = roundId
                                                      THEN [ r EXCEPT !.status = "revealed" ] ELSE r
                                                      : r \in @ } ],
                             EvSeq("trivia_round_revealed", round.seq))
                           : s1 \in { ScoreAnswers(db, unscored, question, basePoints) } } } }

submitTriviaAnswer(db, roundId, gameId, playerId, choiceIndex) ==
    LET rs == { r \in db.rounds : r.id = roundId }
        row == AnswerRow(roundId, gameId, playerId, Some(choiceIndex), FALSE)
        cols == {"round_id", "game_id", "player_id", "choice_index"}
        db1 == logGameEvent([ db EXCEPT !.answers = UpsertAnswer(@, row, cols) ],
                            Ev("trivia_answer_submitted"))
        totalPlayers == Cardinality(NonRefPlayers(db1, gameId))
        totalAnswers == Cardinality({ a \in db1.answers : a.round_id = roundId })
    IN  IF rs = {} \/ (\E r \in rs : r.status # "live")
        THEN { Fail(db, "Round not accepting answers.") }
        ELSE IF ~AnswerKeysExist(db, roundId, gameId, playerId) THEN { Fail(db, ForeignKeyError) }
        ELSE IF totalPlayers > 0 /\ totalAnswers >= totalPlayers
        THEN { Ok(r.db, NULL) : r \in UNION { lockAndScoreRound(d, roundId, gameId) : d \in { db1 } } }
        ELSE { Ok(db1, NULL) }

\* .eq("status", "pending").order("seq", { ascending: true }).limit(1).maybeSingle()
NextPending(db, gameId) ==
    LET pending == { r \in db.rounds : r.game_id = gameId /\ r.status = "pending" }
    IN  { r \in pending : \A o \in pending : r.seq <= o.seq }

\* the update of the next pending round to live, and its event
StartPending(db, nextPending) ==
    logGameEvent([ db EXCEPT !.rounds = { IF r = nextPending THEN [ r EXCEPT !.status = "live" ]
                                          ELSE r : r \in @ } ],
                 EvSeq("trivia_round_started", nextPending.seq))

ensureLiveRound(db, gameId) ==
    LET liveCount == Cardinality({ r \in db.rounds : r.game_id = gameId /\ r.status = "live" })
    IN  IF liveCount > 0 THEN { Ok(db, NULL) }
        ELSE IF NextPending(db, gameId) = {} THEN { Fail(db, "No pending rounds to start.") }
        ELSE { Ok(StartPending(db, n), NULL) : n \in NextPending(db, gameId) }

startNextPendingRound(db, gameId) ==
    IF NextPending(db, gameId) = {} THEN { Fail(db, "No pending round to start.") }
    ELSE { Ok(StartPending(db, n), NULL) : n \in NextPending(db, gameId) }

confirmReadyNext(db, gameId, playerId, roundId) ==
    LET ps == { q \in db.players : q.id = playerId /\ q.game_id = gameId }
        row == AnswerRow(roundId, gameId, playerId, None, TRUE)
        cols == {"round_id", "game_id", "player_id", "ready_next"}
        db1 == [ db EXCEPT !.answers = UpsertAnswer(@, row, cols) ]
        totalPlayers ==
            Cardinality({ q \in db1.players : q.game_id = gameId /\ q.role \notin {"ref", "host"} })
        readyCount == Cardinality({ a \in db1.answers : a.round_id = roundId /\ a.ready_next })
    IN  IF ps = {} \/ (\E q \in ps : q.role \in {"ref", "host"})
        THEN { Fail(db, "Player not found or not eligible.") }
        ELSE IF ~AnswerKeysExist(db, roundId, gameId, playerId) THEN { Fail(db, ForeignKeyError) }
        ELSE IF totalPlayers > 0 /\ readyCount >= totalPlayers /\ NextPending(db1, gameId) # {}
        THEN { Ok(StartPending(db1, n), NULL) : n \in NextPending(db1, gameId) }
        ELSE { Ok(db1, NULL) }

----------------------------------------------------------------------------
(* TriviaSpec: the round actions of a started game, every server action one
   atomic step, until the timeline has MaxTriviaEvents more rows *)

\* the insert of chooseCategoryDifficulty for a block of two questions: the
\* first round live, the next pending
SeededDB ==
    logGameEvent([ StartedDB EXCEPT !.rounds = { RoundRow(G1, 1, "q1", "live"),
                                                  RoundRow(G1, 2, "q2", "pending") } ],
                 Ev("trivia_block_seeded"))

TriviaHosts == {RefP, HomeP}
TriviaSeqs == 1..MaxRounds
\* ids of the rounds there can be, and one there is not
SomeRounds == { RoundIds[n] : n \in TriviaSeqs } \cup { RoundIds[Len(RoundIds)] }
Choices == {0, 1}
Answerers == {HomeP, AwayP}

TriviaInit ==
    /\ \E db \in { StartedDB, SeededDB } : SetDB(db)
    /\ last = NoCall
    /\ inflight = Idle
    /\ script = NoScript

TriviaRoom == Len(game_events) < Len(SeededDB.game_events) + MaxTriviaEvents

\* the request's arguments, kept with what it returned
With(r, args) == [ r EXCEPT !.target = args ]

StartTriviaRound ==
    /\ TriviaRoom
    /\ \E h \in TriviaHosts, q \in QuestionIds, seq \in TriviaSeqs :
         \E r \in startTriviaRound(DB, G1, h, q, seq) :
           Return("startTriviaRound", h, With(r, [ seq |-> seq ]))
    /\ UNCHANGED <<inflight, script>>

SubmitTriviaAnswer ==
    /\ TriviaRoom
    /\ \E p \in Answerers, round \in SomeRounds, choice \in Choices :
         \E r \in submitTriviaAnswer(DB, round, G1, p, choice) :
           Return("submitTriviaAnswer", p, With(r, [ round |-> round, choice |-> choice ]))
    /\ UNCHANGED <<inflight, script>>

LockAndScoreRound ==
    /\ TriviaRoom
    /\ \E round \in SomeRounds :
         \E r \in lockAndScoreRound(DB, round, G1) :
           Return("lockAndScoreRound", NULL, With(r, [ round |-> round ]))
    /\ UNCHANGED <<inflight, script>>

EnsureLiveRound ==
    /\ TriviaRoom
    /\ \E r \in ensureLiveRound(DB, G1) : Return("ensureLiveRound", NULL, r)
    /\ UNCHANGED <<inflight, script>>

StartNextPendingRound ==
    /\ TriviaRoom
    /\ \E r \in startNextPendingRound(DB, G1) : Return("startNextPendingRound", NULL, r)
    /\ UNCHANGED <<inflight, script>>

ConfirmReadyNext ==
    /\ TriviaRoom
    /\ \E p \in Answerers, round \in SomeRounds :
         \E r \in confirmReadyNext(DB, G1, p, round) :
           Return("confirmReadyNext", p, With(r, [ round |-> round ]))
    /\ UNCHANGED <<inflight, script>>

TriviaNext ==
    \/ StartTriviaRound
    \/ SubmitTriviaAnswer
    \/ LockAndScoreRound
    \/ EnsureLiveRound
    \/ StartNextPendingRound
    \/ ConfirmReadyNext

TriviaSpec == TriviaInit /\ [][TriviaNext]_vars

----------------------------------------------------------------------------
(* Claims on the trivia rounds, checked under TriviaSpec *)

RoundRank(status) ==
    CASE status = "pending" -> 0 [] status = "live" -> 1 [] status = "locked" -> 2
      [] OTHER -> 3

\* C12: every step leaves the status of a round where it is or moves it
\* forward along pending -> live -> locked -> revealed, and a round that
\* becomes revealed was live or locked before the step
C12_RoundForward ==
    [][\A r \in rounds : \A n \in rounds' :
         n.id = r.id =>
           /\ RoundRank(n.status) >= RoundRank(r.status)
           /\ (n.status = "revealed" /\ r.status # "revealed") => r.status \in {"live", "locked"}]_vars

\* at most one answers row per (round, player)
UniqueAnswers(rows) ==
    \A a \in rows : \A b \in rows :
      (a.round_id = b.round_id /\ a.player_id = b.player_id) => a = b

IsLive(rs, roundId) == \E r \in rs : r.id = roundId /\ r.status = "live"

\* C13: the answers are unique per (round, player) in every state; a
\* submitTriviaAnswer on a round that is not live returns 'Round not accepting
\* answers.' and leaves the answers as they are; one that is accepted from a
\* player who had a row for the round leaves that one row, holding the new
\* choice_index, and adds none
C13_OneAnswerPerPlayer ==
    /\ [](UniqueAnswers(round_answers))
    /\ [][last'.op = "submitTriviaAnswer" =>
            LET roundId == last'.target.round
                mine(rows) == { a \in rows : a.round_id = roundId /\ a.player_id = last'.player }
            IN  /\ ~IsLive(rounds, roundId) =>
                     /\ ~last'.ok /\ last'.err = "Round not accepting answers."
                     /\ round_answers' = round_answers
                /\ (last'.ok /\ mine(round_answers) # {}) =>
                     /\ Cardinality(round_answers') = Cardinality(round_answers)
                     /\ \A a \in mine(round_answers') : a.choice_index = Some(last'.target.choice)]_vars

\* C13 witness: a player who had answered 0 answered 1 and the round, still
\* live, holds that one answer
C13_Replaced ==
    /\ last.op = "submitTriviaAnswer" /\ last.ok /\ last.target.choice = 1
    /\ IsLive(rounds, last.target.round)
    /\ Cardinality(round_answers) = 1
    /\ \E e \in 1..Len(game_events) - 1 :
         game_events[e].type = "trivia_answer_submitted"
         /\ game_events[e + 1].type = "trivia_answer_submitted"

====
